---------------------------- MODULE Spec2Model ----------------------------
(***************************************************************************)
(* State-machine model of the PyDiscordish chat server (src/server.py):    *)
(* the shared registry (clients, banned, rooms, user_rooms,                *)
(* room_passwords), the per-connection handler handle_client, the command  *)
(* processor handle_command and the broadcast/routing functions.           *)
(*                                                                         *)
(* Python dicts are functions with a finite domain (the keys); a handler   *)
(* thread is a connection slot with a program counter.  Every frame the    *)
(* server writes during a step is appended to out, so that what a step     *)
(* delivered, to whom and in which order can be stated.                    *)
(***************************************************************************)
EXTENDS Integers, Sequences, FiniteSets, TLC

VARIABLES
    clients,        \* username -> [conn, muted_until, is_admin]
    banned,         \* set of usernames
    rooms,          \* room_name -> set of usernames
    user_rooms,     \* username -> room_name
    room_passwords, \* room_name -> password
    users_db,       \* users.json: username -> password
    banned_file,    \* banned_users.txt: the characters in the file
    pc,             \* thread -> its position: a connection slot is the
                    \* handle_client thread on it, Console the GUI thread
    th,             \* thread -> its local variables inside an operation
    lock,           \* the thread that holds clients_lock, or FREE
    running,        \* gui_app.running
    accepting,      \* the accept loop is inside its while running body
    uname,          \* connection slot -> the handler's local variable username
    closed,         \* slots on whose socket a send fails (closed by the server,
                    \* or the peer is gone) while the handler is still alive
    stalled,        \* slots on whose socket a send blocks: the peer does
                    \* not read and the buffers are full
    now,            \* time.time()
    out,            \* frames written by the last step, in order: [to, f]
    last            \* the last step: [op, c, u, data, res]

vars == <<clients, banned, rooms, user_rooms, room_passwords, users_db,
          banned_file, pc, th, lock, running, accepting, uname, closed,
          stalled, now, out, last>>

---------------------------------------------------------------------------
(* Bounds of the model *)

NumConns == 3      \* connection slots (threads alive at once)
PairConns == 2     \* slots used by the specifications of two-party claims
MaxTime == 4       \* the clock stops here

(* Program constants *)

ADMIN_PASSWORD == "admin123"
MAX_FILE_SIZE == 204800
MinUsernameLen == 3
MinPasswordLen == 4

(* Input alphabets *)

Users == {"alice", "bob", "carol"}
UserOrder == <<"alice", "bob", "carol">>
RoomNames == {"gaming", "lobby"}
Conns == 1 .. NumConns
NONE == "<None>"
NoLocals == [k \in {} |-> k]

(* Threads: the handler of each connection slot and the GUI thread *)
Console == 0
Threads == {Console} \cup Conns
FREE == -1

---------------------------------------------------------------------------
(* Python dict operations on functions with a finite domain *)

EmptyDict == [k \in {} |-> k]
Has(d, k) == k \in DOMAIN d
Get(d, k, default) == IF k \in DOMAIN d THEN d[k] ELSE default
Put(d, k, v) == [x \in (DOMAIN d) \cup {k} |-> IF x = k THEN v ELSE d[x]]
Del(d, k) == [x \in (DOMAIN d) \ {k} |-> d[x]]

(* Python truthiness of a string or None *)
Truthy(x) == x # NONE /\ x # ""

(* The registry as one value, threaded through the calls of a handler *)
Cur == [clients |-> clients, banned |-> banned, rooms |-> rooms,
        user_rooms |-> user_rooms, room_passwords |-> room_passwords,
        banned_file |-> banned_file, closed |-> closed, out |-> <<>>]

Commit(s) ==
    /\ clients' = s.clients
    /\ banned' = s.banned
    /\ rooms' = s.rooms
    /\ user_rooms' = s.user_rooms
    /\ room_passwords' = s.room_passwords
    /\ banned_file' = s.banned_file
    /\ closed' = s.closed
    /\ out' = s.out

(* A step that stands for a whole operation: it takes and releases         *)
(* clients_lock within itself, so it waits while another thread holds it,  *)
(* and it ends, so none of its sends blocks.                               *)
Whole ==
    /\ lock = FREE /\ stalled = {}
    /\ UNCHANGED <<lock, th, running, stalled>>

(* ... and is not the accept loop's *)
WholeStep == Whole /\ UNCHANGED accepting

---------------------------------------------------------------------------
(* The ban file: one username per line.  The file is a sequence of         *)
(* characters, so that what two writers leave behind can be read back.     *)

NL == "\n"

Chars(u) ==
    CASE u = "alice" -> <<"a", "l", "i", "c", "e">>
      [] u = "bob" -> <<"b", "o", "b">>
      [] u = "carol" -> <<"c", "a", "r", "o", "l">>

(* sorted(banned): UserOrder is ascending *)
sorted(S) == SelectSeq(UserOrder, LAMBDA u : u \in S)

(* The text save_banned writes: u + "\n" for u in sorted(banned) *)
RECURSIVE Lines(_)
Lines(q) ==
    IF q = <<>> THEN <<>> ELSE Chars(Head(q)) \o <<NL>> \o Lines(Tail(q))

(* A buffered text written at offset 0 of a file that holds text already *)
Overwrite(text, data) == data \o SubSeq(text, Len(data) + 1, Len(text))

(* save_banned() as a whole: open(BANNED_FILE, "w") truncates, the lines   *)
(* are written and the file is closed                                      *)
save_banned(s) == [s EXCEPT !.banned_file = Lines(sorted(s.banned))]

(* load_banned(): the set of the non-empty lines of the file *)
RECURSIVE ReadLines(_, _)
ReadLines(text, line) ==
    IF text = <<>>
    THEN IF line = <<>> THEN {} ELSE {line}
    ELSE IF Head(text) = NL
    THEN (IF line = <<>> THEN {} ELSE {line}) \cup ReadLines(Tail(text), <<>>)
    ELSE ReadLines(Tail(text), Append(line, Head(text)))

load_banned(text) == ReadLines(text, <<>>)

---------------------------------------------------------------------------
(* Frames the server writes.  Message texts are written without the        *)
(* pictograph the source puts in front of some of them.                    *)

Sys(m) == [type |-> "system", message |-> m]

(* send_json: the frame reaches the peer unless the socket was closed;     *)
(* a failed send is swallowed.                                             *)
send_json(s, conn, obj) ==
    IF conn \in s.closed
    THEN s
    ELSE [s EXCEPT !.out = Append(@, [to |-> conn, f |-> obj])]

(* Mutation: the loop ends at the first send that fails *)
RECURSIVE send_each_aborting(_, _, _)
send_each_aborting(s, us, obj) ==
    IF us = <<>> \/ s.clients[Head(us)].conn \in s.closed
    THEN s
    ELSE send_each_aborting(send_json(s, s.clients[Head(us)].conn, obj),
                            Tail(us), obj)

RECURSIVE send_each(_, _, _)
send_each(s, us, obj) ==
    IF us = <<>>
    THEN s
    ELSE send_each(send_json(s, s.clients[Head(us)].conn, obj), Tail(us), obj)

(* broadcast(obj, exclude, room): every registered session not excluded    *)
(* and, when room is given, whose current room is room.                    *)
Recipients(s, exclude, room) ==
    {u \in DOMAIN s.clients :
        /\ u \notin exclude
        /\ Truthy(room) => Get(s.user_rooms, u, NONE) = room}

(* The loop writes to one socket after another; a peer reads its own      *)
(* socket only, so the order among different sockets is fixed here.       *)
InOrder(S) == SelectSeq(UserOrder, LAMBDA u : u \in S)

broadcast(s, obj, exclude, room) ==
    send_each(s, InOrder(Recipients(s, exclude, room)), obj)

UserlistFrame(s) ==
    [type |-> "userlist", users |-> DOMAIN s.clients,
     rooms |-> s.rooms, user_rooms |-> s.user_rooms]

send_userlist(s) ==
    send_each(s, InOrder(DOMAIN s.clients), UserlistFrame(s))

(* Mutation: the leave notice is broadcast whether or not a session was    *)
(* popped                                                                  *)
remove_client_always_notifies(s, username) ==
    LET had == Has(s.clients, username)
        room == Get(s.user_rooms, username, NONE)
        rooms1 ==
            IF Truthy(room) /\ username \in Get(s.rooms, room, {})
            THEN IF s.rooms[room] \ {username} = {}
                 THEN Del(s.rooms, room)
                 ELSE Put(s.rooms, room, s.rooms[room] \ {username})
            ELSE s.rooms
        s1 == [s EXCEPT !.clients = Del(@, username),
                        !.user_rooms = Del(@, username),
                        !.rooms = rooms1,
                        !.closed = IF had THEN @ \cup {s.clients[username].conn}
                                          ELSE @]
    IN  broadcast(s1, Sys(username \o " left the chat."), {}, NONE)

(* remove_client(username): pop the session and its room pointer, drop the *)
(* user from that room and delete the room if that emptied it; if a        *)
(* session was popped, close its socket and broadcast the leave notice.    *)
remove_client(s, username) ==
    LET had == Has(s.clients, username)
        info == Get(s.clients, username, NONE)
        room == Get(s.user_rooms, username, NONE)
        rooms1 ==
            IF Truthy(room) /\ username \in Get(s.rooms, room, {})
            THEN IF s.rooms[room] \ {username} = {}
                 THEN Del(s.rooms, room)
                 ELSE Put(s.rooms, room, s.rooms[room] \ {username})
            ELSE s.rooms
        s1 == [s EXCEPT !.clients = Del(@, username),
                        !.user_rooms = Del(@, username),
                        !.rooms = rooms1]
    IN  IF had
        THEN broadcast([s1 EXCEPT !.closed = @ \cup {info.conn}],
                       Sys(username \o " left the chat."), {}, NONE)
        ELSE s1

---------------------------------------------------------------------------
(* handle_command.  A command is the sequence of its whitespace-separated  *)
(* tokens (str.split): <<"/join", "gaming", "pw123">>.                     *)

(* str.lower() on the command names the model sends *)
lower(t) ==
    CASE t = "/BAN" -> "/ban"
      [] t = "/Kick" -> "/kick"
      [] t = "/LEAVE" -> "/leave"
      [] OTHER -> t

(* int(seconds_str): IsIntStr is false where int() raises ValueError *)
IsIntStr(t) == t \in {"0", "1", "2", "3", "-1"}

ParseInt(t) ==
    CASE t = "0" -> 0
      [] t = "1" -> 1
      [] t = "2" -> 2
      [] t = "3" -> 3
      [] t = "-1" -> -1

AdminGated == {"/mute", "/unmute", "/kick", "/ban", "/unban", "/listbans",
               "/announce"}

MsgAdminRequired == "Admin rights required."
MsgUnknownCommand == "Unknown command. Use /help for help."

(* admin_required(): the error frame is written when the flag is false *)
admin_required(s, sender) ==
    IF s.clients[sender].is_admin
    THEN s
    ELSE send_json(s, s.clients[sender].conn, Sys(MsgAdminRequired))

cmd_admin(s, sender, cmd) ==
    IF Len(cmd) >= 2 /\ cmd[2] = ADMIN_PASSWORD
    THEN broadcast([s EXCEPT !.clients[sender].is_admin = TRUE],
                   Sys(sender \o " is now an admin."), {}, NONE)
    ELSE send_json(s, s.clients[sender].conn, Sys("Invalid admin password."))

cmd_list(s, sender) ==
    send_json(s, s.clients[sender].conn,
              [type |-> "system", message |-> "Online Users",
               users |-> DOMAIN s.clients])

cmd_whoami(s, sender) ==
    send_json(s, s.clients[sender].conn, Sys("You are: " \o sender))

cmd_create(s, sender, cmd) ==
    LET conn == s.clients[sender].conn
        room_name == cmd[2]
        pwd == IF Len(cmd) > 2 THEN cmd[3] ELSE ""
    IN  IF Len(cmd) < 2
        THEN send_json(s, conn, Sys("Usage: /create room_name [password]"))
        ELSE IF Has(s.rooms, room_name)
        THEN send_json(s, conn, Sys("Room '" \o room_name \o "' already exists."))
        ELSE
          LET s1 == [s EXCEPT
                       !.rooms = Put(@, room_name, {sender}),
                       !.user_rooms = Put(@, sender, room_name),
                       !.room_passwords =
                           IF pwd # "" THEN Put(@, room_name, pwd) ELSE @]
              s2 == send_json(s1, conn,
                       Sys("Created room '" \o room_name \o "'"
                           \o (IF pwd # "" THEN " (password protected)" ELSE "")))
              s3 == broadcast(s2,
                       Sys(sender \o " created room '" \o room_name \o "'"),
                       {}, NONE)
          IN  send_userlist(s3)

MsgIncorrectPassword == "Incorrect room password."

(* Mutation: no room password is ever tested *)
PasswordRefused_never(s, room_name, pwd) == FALSE

(* The password test of /join (340-343) *)
PasswordRefused(s, room_name, pwd) ==
    Has(s.room_passwords, room_name) /\ s.room_passwords[room_name] # pwd

(* /join from "Remove from previous room" on (345-363) *)
join_move(s, conn, sender, room_name) ==
    LET prev_room == Get(s.user_rooms, sender, NONE)
        s2 == IF Truthy(prev_room)
                 /\ sender \in Get(s.rooms, prev_room, {})
              THEN broadcast(
                     [s EXCEPT !.rooms =
                        IF @[prev_room] \ {sender} = {}
                        THEN Del(@, prev_room)
                        ELSE Put(@, prev_room, @[prev_room] \ {sender})],
                     Sys(sender \o " left room '" \o prev_room \o "'"),
                     {}, NONE)
              ELSE s
        s3 == [s2 EXCEPT
                 !.rooms = Put(@, room_name,
                               Get(@, room_name, {}) \cup {sender}),
                 !.user_rooms = Put(@, sender, room_name)]
        s4 == send_json(s3, conn,
                        Sys("You joined room '" \o room_name \o "'."))
        s5 == broadcast(s4,
                 Sys(sender \o " joined room '" \o room_name \o "'."),
                 {}, room_name)
    IN  send_userlist(s5)

(* Mutation: the existence of the room is not tested *)
StoresPassword_any_room(s, room_name, pwd) ==
    ~Has(s.room_passwords, room_name) /\ pwd # ""

(* elif pwd and room_name not in rooms (342) *)
StoresPassword(s, room_name, pwd) ==
    ~Has(s.room_passwords, room_name) /\ pwd # "" /\ ~Has(s.rooms, room_name)

cmd_join(s, sender, cmd) ==
    LET conn == s.clients[sender].conn
        room_name == cmd[2]
        pwd == IF Len(cmd) > 2 THEN cmd[3] ELSE ""
    IN  IF Len(cmd) < 2
        THEN send_json(s, conn, Sys("Usage: /join room_name [password]"))
        ELSE IF PasswordRefused(s, room_name, pwd)
        THEN send_json(s, conn, Sys(MsgIncorrectPassword))
        ELSE
          LET s1 == IF StoresPassword(s, room_name, pwd)
                    THEN [s EXCEPT !.room_passwords = Put(@, room_name, pwd)]
                    ELSE s
          IN  join_move(s1, conn, sender, room_name)

MsgCommandError == "Command error"

cmd_leave(s, sender) ==
    LET conn == s.clients[sender].conn
        current_room == Get(s.user_rooms, sender, NONE)
    IN  IF ~Truthy(current_room)
        THEN send_json(s, conn, Sys("You are not in any room."))
        ELSE IF ~Has(s.rooms, current_room)
        THEN \* rooms[current_room] raises KeyError, caught at line 570
             send_json(s, conn, Sys(MsgCommandError))
        ELSE
          LET s1 == [s EXCEPT
                       !.rooms =
                          IF @[current_room] \ {sender} = {}
                          THEN Del(@, current_room)
                          ELSE Put(@, current_room, @[current_room] \ {sender}),
                       !.user_rooms = Del(@, sender)]
              s2 == send_json(s1, conn,
                       Sys("You left room '" \o current_room \o "'."))
              s3 == broadcast(s2,
                       Sys(sender \o " left room '" \o current_room \o "'."),
                       {}, NONE)
          IN  send_userlist(s3)

cmd_rooms(s, sender) ==
    send_json(s, s.clients[sender].conn,
              [type |-> "system", message |-> "Available rooms",
               rooms |-> DOMAIN s.rooms])

cmd_me(s, sender, cmd) ==
    IF Len(cmd) < 2
    THEN send_json(s, s.clients[sender].conn, Sys("Usage: /me <action>"))
    ELSE broadcast(s,
           [type |-> "broadcast", from |-> sender,
            message |-> sender \o " " \o cmd[2], timestamp |-> now],
           {sender}, Get(s.user_rooms, sender, NONE))

(* Mutation: the not-found reply does not name the target *)
MsgNotFound_unnamed(target) == "User not found."

MsgNotFound(target) == "User '" \o target \o "' not found."

cmd_mute(s, sender, cmd) ==
    LET conn == s.clients[sender].conn
        target == cmd[2]
        seconds == ParseInt(cmd[3])
    IN  IF Len(cmd) < 3
        THEN send_json(s, conn, Sys("Usage: /mute username seconds"))
        ELSE IF ~IsIntStr(cmd[3])
        THEN send_json(s, conn, Sys("Invalid seconds value"))
        ELSE IF Has(s.clients, target)
        THEN LET s1 == [s EXCEPT
                          !.clients[target].muted_until = now + seconds]
                 s2 == send_json(s1, s1.clients[target].conn,
                          Sys("You are muted for " \o cmd[3] \o " seconds."))
             IN  broadcast(s2,
                    Sys(target \o " was muted by " \o sender \o " for "
                        \o cmd[3] \o "s."), {}, NONE)
        ELSE send_json(s, conn, Sys(MsgNotFound(target)))

cmd_unmute(s, sender, cmd) ==
    LET conn == s.clients[sender].conn
        target == cmd[2]
    IN  IF Len(cmd) < 2
        THEN send_json(s, conn, Sys("Usage: /unmute username"))
        ELSE IF Has(s.clients, target)
        THEN LET s1 == [s EXCEPT !.clients[target].muted_until = 0]
                 s2 == send_json(s1, s1.clients[target].conn,
                                 Sys("You are no longer muted."))
             IN  broadcast(s2, Sys(target \o " was unmuted by " \o sender \o "."),
                           {}, NONE)
        ELSE send_json(s, conn, Sys(MsgNotFound(target)))

MsgKicked == "You were kicked by an admin."

(* Mutation: the kick is announced before the session is removed *)
cmd_kick_announces_first(s, sender, cmd) ==
    LET conn == s.clients[sender].conn
        target == cmd[2]
    IN  IF Len(cmd) < 2
        THEN send_json(s, conn, Sys("Usage: /kick username"))
        ELSE IF Has(s.clients, target)
        THEN LET s1 == send_json(s, s.clients[target].conn, Sys(MsgKicked))
                 s2 == broadcast(s1, Sys(target \o " was kicked by " \o sender \o "."),
                                 {}, NONE)
             IN  remove_client(s2, target)
        ELSE send_json(s, conn, Sys(MsgNotFound(target)))

cmd_kick(s, sender, cmd) ==
    LET conn == s.clients[sender].conn
        target == cmd[2]
    IN  IF Len(cmd) < 2
        THEN send_json(s, conn, Sys("Usage: /kick username"))
        ELSE IF Has(s.clients, target)
        THEN LET s1 == send_json(s, s.clients[target].conn, Sys(MsgKicked))
                 s2 == remove_client(s1, target)
             IN  broadcast(s2, Sys(target \o " was kicked by " \o sender \o "."),
                           {}, NONE)
        ELSE send_json(s, conn, Sys(MsgNotFound(target)))

(* Mutation: the ban list grows but the session is left in place *)
cmd_ban_keeps_session(s, sender, cmd) ==
    LET conn == s.clients[sender].conn
        target == cmd[2]
    IN  IF Len(cmd) < 2
        THEN send_json(s, conn, Sys("Usage: /ban username"))
        ELSE broadcast(save_banned([s EXCEPT !.banned = @ \cup {target}]),
                       Sys(target \o " was banned by " \o sender \o "."),
                       {}, NONE)

cmd_ban(s, sender, cmd) ==
    LET conn == s.clients[sender].conn
        target == cmd[2]
    IN  IF Len(cmd) < 2
        THEN send_json(s, conn, Sys("Usage: /ban username"))
        ELSE LET s1 == save_banned([s EXCEPT !.banned = @ \cup {target}])
                 s2 == broadcast(s1,
                          Sys(target \o " was banned by " \o sender \o "."),
                          {}, NONE)
             IN  remove_client(s2, target)

cmd_unban(s, sender, cmd) ==
    LET conn == s.clients[sender].conn
        target == cmd[2]
    IN  IF Len(cmd) < 2
        THEN send_json(s, conn, Sys("Usage: /unban username"))
        ELSE IF target \in s.banned
        THEN broadcast(save_banned([s EXCEPT !.banned = @ \ {target}]),
                       Sys(target \o " was unbanned by " \o sender \o "."),
                       {}, NONE)
        ELSE send_json(s, conn, Sys("User '" \o target \o "' is not banned."))

cmd_listbans(s, sender) ==
    send_json(s, s.clients[sender].conn,
              [type |-> "system", message |-> "Banned users",
               users |-> s.banned])

cmd_announce(s, sender, cmd) ==
    IF Len(cmd) < 2
    THEN send_json(s, s.clients[sender].conn, Sys("Usage: /announce <message>"))
    ELSE broadcast(s, Sys("[ANNOUNCEMENT] " \o cmd[2]), {}, NONE)

cmd_help(s, sender) ==
    send_json(s, s.clients[sender].conn,
              [type |-> "system", message |-> "AVAILABLE COMMANDS",
               admin |-> s.clients[sender].is_admin])

(* The branch of an admin-gated command, taken when admin_required() *)
cmd_gated(s, sender, cmd0, cmd) ==
    CASE cmd0 = "/mute" -> cmd_mute(s, sender, cmd)
      [] cmd0 = "/unmute" -> cmd_unmute(s, sender, cmd)
      [] cmd0 = "/kick" -> cmd_kick(s, sender, cmd)
      [] cmd0 = "/ban" -> cmd_ban(s, sender, cmd)
      [] cmd0 = "/unban" -> cmd_unban(s, sender, cmd)
      [] cmd0 = "/listbans" -> cmd_listbans(s, sender)
      [] cmd0 = "/announce" -> cmd_announce(s, sender, cmd)

(* The final else of the elif chain *)
cmd_unknown(s, sender) ==
    send_json(s, s.clients[sender].conn, Sys(MsgUnknownCommand))

(* The value admin_required() returns (265-268) *)
admin_required_true(s, sender) == TRUE

admin_required_result(s, sender) == s.clients[sender].is_admin

handle_command(s, sender, cmd) ==
    IF cmd = <<>> \/ ~Has(s.clients, sender)
    THEN s
    ELSE
      LET cmd0 == lower(cmd[1])
      IN  CASE cmd0 = "/admin" -> cmd_admin(s, sender, cmd)
            [] cmd0 \in {"/list", "/users"} -> cmd_list(s, sender)
            [] cmd0 = "/whoami" -> cmd_whoami(s, sender)
            [] cmd0 = "/create" -> cmd_create(s, sender, cmd)
            [] cmd0 = "/join" -> cmd_join(s, sender, cmd)
            [] cmd0 = "/leave" -> cmd_leave(s, sender)
            [] cmd0 = "/rooms" -> cmd_rooms(s, sender)
            [] cmd0 = "/me" -> cmd_me(s, sender, cmd)
            \* "elif cmd0 == name and admin_required()": when the call returns
            \* False, after writing its frame, no later elif matches the
            \* name and the chain ends in its else
            [] cmd0 \in AdminGated ->
                 IF admin_required_result(s, sender)
                 THEN cmd_gated(admin_required(s, sender), sender, cmd0, cmd)
                 ELSE cmd_unknown(admin_required(s, sender), sender)
            [] cmd0 \in {"/help", "/?"} -> cmd_help(s, sender)
            [] OTHER -> cmd_unknown(s, sender)

---------------------------------------------------------------------------
(* The credential store *)

authenticate_user(db, username, password) ==
    Has(db, username) /\ db[username] = password

(* register_user: the new store, unchanged when the name is taken *)
register_user(db, username, password) ==
    IF Has(db, username) THEN db ELSE Put(db, username, password)

---------------------------------------------------------------------------
(* handle_client: one thread per accepted connection.                      *)
(*   idle         no thread on the slot                                    *)
(*   handle_join  credentials accepted, about to test the ban list (216)   *)
(*   register     ban test passed, about to take clients_lock (221)        *)
(*   active       in the main message loop (692)                           *)

(* str.strip() on the names and passwords the model sends *)
strip(t) ==
    CASE t = " bob " -> "bob"
      [] t = "   " -> ""
      [] OTHER -> t

Idle == {c \in Conns : pc[c] = "idle"}

(* accept() hands out the lowest free descriptor *)
Accepted(c) == c \in Idle /\ \A d \in Idle : c <= d

(* Mutation: the finally clause leaves the session registered *)
Finally_keeps_session(s, c, username) == [s EXCEPT !.closed = @ \ {c}]


(* The finally clause of handle_client (831-833) and the end of the thread *)
Finally(s, c, username) ==
    LET s1 == IF Truthy(username) THEN remove_client(s, username) ELSE s
    IN  [s1 EXCEPT !.closed = @ \ {c}]

AuthFrame(username, password, register) ==
    [type |-> "auth", username |-> username, password |-> password,
     register |-> register]

MsgAuthOk == "Authentication successful!"
MsgCreated(username) == "Account '" \o username \o "' created successfully! Please login."
MsgExists(username) ==
    "Username '" \o username \o "' already exists. Please choose another."

(* username before the first frame is accepted as an auth frame (582) *)
UsernameBeforeAuth_alice == "alice"

UsernameBeforeAuth == NONE

(* is_register = obj.get("register", False) (614) *)
is_register_ignored(obj) == FALSE

is_register(obj) == obj.register

(* The connection is accepted, its first frame read and validated         *)
(* (585-672); a rejected one runs the finally clause and the thread ends.  *)
FirstFrame(c, obj) ==
    /\ Accepted(c)
    /\ LET username == strip(obj.username)
           password == strip(obj.password)
           err(m) == send_json(Cur, c, Sys(m))
           abort(s, res) ==
               /\ Commit(Finally(s, c, UsernameBeforeAuth))
               /\ UNCHANGED <<pc, uname, users_db>>
               /\ last' = [op |-> "auth", c |-> c, u |-> NONE,
                           data |-> obj, res |-> res]
           reject(s, res) ==
               /\ Commit(Finally(s, c, username))
               /\ UNCHANGED <<pc, uname>>
               /\ last' = [op |-> "auth", c |-> c, u |-> username,
                           data |-> obj, res |-> res]
       IN  IF obj.type = "timeout"
           THEN abort(Cur, "timeout")
           ELSE IF obj.type = "invalid_json"
           THEN abort(err("Invalid message format."), "invalid")
           ELSE IF obj.type = "non_object"
           THEN \* obj.get raises AttributeError, caught at 828
                abort(Cur, "crashed")
           ELSE IF obj.type # "auth"
           THEN abort(err("Expected authentication message."), "not_auth")
           ELSE IF username = ""
           THEN /\ reject(err("Username cannot be empty."), "no_username")
                /\ UNCHANGED users_db
           ELSE IF Len(username) < MinUsernameLen
           THEN /\ reject(err("Username must be at least 3 characters."),
                          "short_username")
                /\ UNCHANGED users_db
           ELSE IF password = ""
           THEN /\ reject(err("Password cannot be empty."), "no_password")
                /\ UNCHANGED users_db
           ELSE IF Len(password) < MinPasswordLen
           THEN /\ reject(err("Password must be at least 4 characters."),
                          "short_password")
                /\ UNCHANGED users_db
           ELSE IF is_register(obj)
           THEN /\ users_db' = register_user(users_db, username, password)
                /\ IF Has(users_db, username)
                   THEN reject(err(MsgExists(username)), "exists")
                   ELSE reject(err(MsgCreated(username)), "created")
           ELSE IF ~authenticate_user(users_db, username, password)
           THEN /\ reject(err("Invalid username or password. Please try again."),
                          "bad_credentials")
                /\ UNCHANGED users_db
           ELSE /\ Commit(err(MsgAuthOk))
                /\ pc' = [pc EXCEPT ![c] = "handle_join"]
                /\ uname' = [uname EXCEPT ![c] = username]
                /\ UNCHANGED users_db
                /\ last' = [op |-> "auth", c |-> c, u |-> username,
                            data |-> obj, res |-> "authenticated"]
    /\ UNCHANGED now
    /\ Whole /\ accepting /\ accepting' = running

(* handle_join, lines 209-219: the ban test *)
JoinBanCheck(c) ==
    /\ pc[c] = "handle_join"
    /\ LET username == uname[c]
       IN  IF username \in banned
           THEN /\ Commit(Finally(
                      send_json(Cur, c, Sys("You are banned from this server.")),
                      c, username))
                /\ pc' = [pc EXCEPT ![c] = "idle"]
                /\ uname' = [uname EXCEPT ![c] = NONE]
                /\ last' = [op |-> "join", c |-> c, u |-> username,
                            res |-> "banned"]
           ELSE /\ Commit(Cur)
                /\ pc' = [pc EXCEPT ![c] = "register"]
                /\ UNCHANGED uname
                /\ last' = [op |-> "join", c |-> c, u |-> username,
                            res |-> "not_banned"]
    /\ UNCHANGED <<users_db, now>>
    /\ WholeStep

MsgInUse == "Username already in use."

(* Mutation: the name is not tested before the insert *)
MayRegister_unchecked(s, username) == TRUE

(* handle_join, lines 221-233: the test under clients_lock *)
MayRegister(s, username) == ~Has(s.clients, username)

(* handle_join, lines 221-244, and the welcome frame (679): under          *)
(* clients_lock the name is tested and the session inserted.               *)
JoinRegister(c) ==
    /\ pc[c] = "register"
    /\ LET username == uname[c]
       IN  IF ~MayRegister(Cur, username)
           THEN /\ Commit(Finally(send_json(Cur, c, Sys(MsgInUse)), c, username))
                /\ pc' = [pc EXCEPT ![c] = "idle"]
                /\ uname' = [uname EXCEPT ![c] = NONE]
                /\ last' = [op |-> "join", c |-> c, u |-> username,
                            res |-> "in_use"]
           ELSE LET s1 == [Cur EXCEPT !.clients = Put(@, username,
                               [conn |-> c, muted_until |-> 0,
                                is_admin |-> FALSE])]
                    s2 == broadcast(s1, Sys(username \o " joined the chat."),
                                    {}, NONE)
                    s3 == send_userlist(s2)
                    s4 == send_json(s3, c, Sys("Welcome to PyDiscordish, "
                               \o username \o "! Type /help for commands."))
                IN  /\ Commit(s4)
                    /\ pc' = [pc EXCEPT ![c] = "active"]
                    /\ UNCHANGED uname
                    /\ last' = [op |-> "join", c |-> c, u |-> username,
                                res |-> "registered"]
    /\ UNCHANGED <<users_db, now>>
    /\ WholeStep

---------------------------------------------------------------------------
(* The main loop of handle_client: one complete frame (715-816) *)

MsgMuted == "You are muted."

(* Auto-unmute (737-739) *)
auto_unmute(s, username) ==
    IF s.clients[username].muted_until < now
    THEN [s EXCEPT !.clients[username].muted_until = 0]
    ELSE s

IsMuted_inclusive(s, username) == s.clients[username].muted_until >= now

(* The mute test (741-744) *)
IsMuted(s, username) == s.clients[username].muted_until > now

(* Mutation: the room of the sender is not passed to broadcast *)
on_broadcast_every_room(s, c, username, data) ==
    broadcast(s,
        [type |-> "broadcast", from |-> username, message |-> data.message,
         timestamp |-> now],
        {username}, NONE)

on_broadcast(s, c, username, data) ==
    broadcast(s,
        [type |-> "broadcast", from |-> username, message |-> data.message,
         timestamp |-> now],
        {username}, Get(s.user_rooms, username, NONE))

(* A "to" value that is a JSON array or object: dict.get(to) raises         *)
(* TypeError (unhashable).  The except clause of the request (814-816)     *)
(* writes to the console's log and to no connection.                       *)
Unhashable == "<list>"

on_private_no_echo(s, c, username, data) ==
    IF Has(s.clients, data.to)
    THEN send_json(s, s.clients[data.to].conn,
                   [type |-> "private", from |-> username,
                    message |-> data.message, timestamp |-> now])
    ELSE send_json(s, c, Sys(MsgNotFound(data.to)))

on_private(s, c, username, data) ==
    IF data.to = Unhashable
    THEN s
    ELSE IF Has(s.clients, data.to)
    THEN LET pm == [type |-> "private", from |-> username,
                    message |-> data.message, timestamp |-> now]
         IN  send_json(send_json(s, s.clients[data.to].conn, pm), c, pm)
    ELSE send_json(s, c, Sys(MsgNotFound(data.to)))

on_typing(s, c, username, data) ==
    broadcast(s, [type |-> "typing", user |-> username, status |-> data.status],
              {username}, NONE)

on_file(s, c, username, data) ==
    IF data.to = "All"
    THEN broadcast(s, data, {username}, Get(s.user_rooms, username, NONE))
    ELSE IF data.to = Unhashable
    THEN s
    ELSE IF Has(s.clients, data.to)
    THEN send_json(s, s.clients[data.to].conn, data)
    ELSE s

dispatch(s, c, username, data) ==
    CASE data.type = "broadcast" -> on_broadcast(s, c, username, data)
      [] data.type = "private" -> on_private(s, c, username, data)
      [] data.type = "command" -> handle_command(s, username, data.command)
      [] data.type = "typing" -> on_typing(s, c, username, data)
      [] data.type = "file" -> on_file(s, c, username, data)
      [] OTHER -> s

Recv(c, data) ==
    /\ pc[c] = "active"
    /\ LET username == uname[c]
           done(s, res) ==
               /\ Commit(s)
               /\ UNCHANGED <<pc, uname>>
               /\ last' = [op |-> "recv", c |-> c, u |-> username,
                           data |-> data, res |-> res]
       IN  IF data.type = "invalid_json"
           THEN done(Cur, "skipped")
           ELSE IF ~Has(clients, username)
           THEN done(Cur, "removed")
           ELSE
             LET s1 == auto_unmute(Cur, username)
             IN  IF data.type = "non_object"
                 THEN \* data.get raises AttributeError outside the inner try
                      /\ Commit(Finally(s1, c, username))
                      /\ pc' = [pc EXCEPT ![c] = "idle"]
                      /\ uname' = [uname EXCEPT ![c] = NONE]
                      /\ last' = [op |-> "recv", c |-> c, u |-> username,
                                  data |-> data, res |-> "crashed"]
                 ELSE IF IsMuted(s1, username)
                         /\ data.type \in {"broadcast", "private"}
                 THEN done(send_json(s1, c, Sys(MsgMuted)), "muted")
                 ELSE done(dispatch(s1, c, username, data), "handled")
    /\ UNCHANGED <<users_db, now>>
    /\ WholeStep

(* recv() returns no data or raises: the loop ends and finally runs *)
Disconnect(c) ==
    /\ pc[c] = "active"
    /\ Commit(Finally(Cur, c, uname[c]))
    /\ pc' = [pc EXCEPT ![c] = "idle"]
    /\ uname' = [uname EXCEPT ![c] = NONE]
    /\ last' = [op |-> "disconnect", c |-> c, u |-> uname[c]]
    /\ UNCHANGED <<users_db, now>>
    /\ WholeStep

---------------------------------------------------------------------------
(* The administrator's console (ServerGUI), on the GUI thread *)

quick_kick(username) ==
    /\ Commit(IF Has(clients, username)
              THEN remove_client(
                     send_json(Cur, clients[username].conn,
                               Sys("You were kicked by admin.")), username)
              ELSE Cur)
    /\ last' = [op |-> "quick_kick", u |-> username]
    /\ UNCHANGED <<users_db, pc, uname, now>>
    /\ WholeStep

quick_ban(username) ==
    /\ Commit(remove_client(
                 save_banned([Cur EXCEPT !.banned = @ \cup {username}]),
                 username))
    /\ last' = [op |-> "quick_ban", u |-> username]
    /\ UNCHANGED <<users_db, pc, uname, now>>
    /\ WholeStep

quick_unban(username) ==
    /\ Commit(IF username \in banned
              THEN save_banned([Cur EXCEPT !.banned = @ \ {username}])
              ELSE Cur)
    /\ last' = [op |-> "quick_unban", u |-> username]
    /\ UNCHANGED <<users_db, pc, uname, now>>
    /\ WholeStep

(* str() of an integer, as the f-string of quick_mute formats it *)
Digits == <<"0", "1", "2", "3", "4", "5", "6", "7", "8", "9">>

RECURSIVE str(_)
str(n) ==
    IF n < 0 THEN "-" \o str(-n)
    ELSE IF n < 10 THEN Digits[n + 1]
    ELSE str(n \div 10) \o Digits[(n % 10) + 1]

quick_mute(username, seconds) ==
    /\ Commit(IF Has(clients, username)
              THEN send_json(
                     [Cur EXCEPT !.clients[username].muted_until = now + seconds],
                     clients[username].conn,
                     Sys("You are muted for " \o str(seconds) \o " seconds."))
              ELSE Cur)
    /\ last' = [op |-> "quick_mute", u |-> username, seconds |-> seconds]
    /\ UNCHANGED <<users_db, pc, uname, now, stalled>>
    /\ WholeStep

---------------------------------------------------------------------------
(* A change of the ban list, statement by statement: /ban and /unban in a  *)
(* handler thread (486-488, 505-507), quick_ban and quick_unban in the GUI *)
(* thread (1488-1489, 1508-1510).  banned and the file are touched without *)
(* clients_lock, so these steps do not wait for it.                        *)

At(t, position) == pc[t] = position

Goto(t, position) == pc' = [pc EXCEPT ![t] = position]

(* The thread may start the command: the console at rest, or the handler   *)
(* of a registered admin between two frames                                *)
MayChangeBans(t) ==
    IF t = Console
    THEN At(t, "mainloop")
    ELSE /\ At(t, "active")
         /\ Has(clients, uname[t]) /\ clients[uname[t]].conn = t
         /\ clients[uname[t]].is_admin

(* banned.add(target) *)
BanAdd(t, target) ==
    /\ MayChangeBans(t)
    /\ banned' = banned \cup {target}
    /\ th' = [th EXCEPT ![t] = [op |-> "ban", target |-> target]]
    /\ Goto(t, "save_open")
    /\ out' = <<>>
    /\ last' = [op |-> "ban_add", t |-> t, u |-> target]
    /\ UNCHANGED <<clients, rooms, user_rooms, room_passwords, users_db,
                   banned_file, lock, running, accepting, uname, closed, now, stalled>>

(* if target in banned: banned.remove(target) *)
BanRemove(t, target) ==
    /\ MayChangeBans(t)
    /\ target \in banned
    /\ banned' = banned \ {target}
    /\ th' = [th EXCEPT ![t] = [op |-> "unban", target |-> target]]
    /\ Goto(t, "save_open")
    /\ out' = <<>>
    /\ last' = [op |-> "ban_remove", t |-> t, u |-> target]
    /\ UNCHANGED <<clients, rooms, user_rooms, room_passwords, users_db,
                   banned_file, lock, running, accepting, uname, closed, now, stalled>>

(* save_banned, line 82: open(BANNED_FILE, "w") truncates the file *)
SaveOpen(t) ==
    /\ At(t, "save_open")
    /\ banned_file' = <<>>
    /\ Goto(t, "save_sorted")
    /\ out' = <<>>
    /\ last' = [op |-> "save_open", t |-> t]
    /\ UNCHANGED <<clients, banned, rooms, user_rooms, room_passwords,
                   users_db, th, lock, running, accepting, uname, closed, now, stalled>>

(* lines 83-84: sorted(banned) is taken and its lines go to the buffer *)
SaveSorted(t) ==
    /\ At(t, "save_sorted")
    /\ th' = [th EXCEPT ![t] =
                [op |-> @.op, target |-> @.target,
                 buffer |-> Lines(sorted(banned))]]
    /\ Goto(t, "save_close")
    /\ out' = <<>>
    /\ last' = [op |-> "save_sorted", t |-> t]
    /\ UNCHANGED <<clients, banned, rooms, user_rooms, room_passwords,
                   users_db, banned_file, lock, running, accepting, uname,
                   closed, now, stalled>>

(* leaving the with block: the buffer is written at the start of the file  *)
(* and the file closed                                                     *)
SaveClose(t) ==
    /\ At(t, "save_close")
    /\ banned_file' = Overwrite(banned_file, th[t].buffer)
    /\ Goto(t, "saved")
    /\ out' = <<>>
    /\ last' = [op |-> "save_close", t |-> t]
    /\ UNCHANGED <<clients, banned, rooms, user_rooms, room_passwords,
                   users_db, th, lock, running, accepting, uname, closed, now, stalled>>

(* The rest of the command as a whole: the announcement of a handler's     *)
(* /ban or /unban, and the removal of the banned user's session            *)
BanDone(t) ==
    /\ At(t, "saved")
    /\ lock = FREE
    /\ LET target == th[t].target
           told == IF th[t].op = "ban" THEN " was banned by "
                                       ELSE " was unbanned by "
           s1 == IF t # Console
                 THEN broadcast(Cur, Sys(target \o told \o uname[t] \o "."),
                                {}, NONE)
                 ELSE Cur
       IN  Commit(IF th[t].op = "ban" THEN remove_client(s1, target) ELSE s1)
    /\ th' = [th EXCEPT ![t] = NoLocals]
    /\ Goto(t, IF t = Console THEN "mainloop" ELSE "active")
    /\ last' = [op |-> "ban_done", t |-> t, u |-> th[t].target]
    /\ UNCHANGED <<users_db, lock, running, accepting, uname, now, stalled>>


---------------------------------------------------------------------------
(* Shutdown: ServerGUI.on_close in the GUI thread (1714-1733) and the      *)
(* accept loop (853-867).  The window is destroyed, and the process ends,  *)
(* one second after the connections were closed.                           *)

MsgShutdown == "Server is shutting down..."

(* self.running = False *)
on_close ==
    /\ At(Console, "mainloop")
    /\ running
    /\ running' = FALSE
    /\ Goto(Console, "close_notify")
    /\ out' = <<>>
    /\ last' = [op |-> "on_close"]
    /\ UNCHANGED <<clients, banned, rooms, user_rooms, room_passwords,
                   users_db, banned_file, th, lock, accepting, uname, closed,
                   now, stalled>>

(* broadcast of the shutdown notice *)
on_close_notify ==
    /\ At(Console, "close_notify")
    /\ lock = FREE
    /\ Commit(broadcast(Cur, Sys(MsgShutdown), {}, NONE))
    /\ Goto(Console, "close_conns")
    /\ last' = [op |-> "on_close_notify"]
    /\ UNCHANGED <<users_db, th, lock, running, accepting, uname, now, stalled>>

(* under the lock, conn.close() for every registered session; the          *)
(* sessions stay in the registry until their handlers end                  *)
on_close_conns ==
    /\ At(Console, "close_conns")
    /\ lock = FREE
    /\ closed' = closed \cup {clients[u].conn : u \in DOMAIN clients}
    /\ Goto(Console, "closing")
    /\ out' = <<>>
    /\ last' = [op |-> "on_close_conns"]
    /\ UNCHANGED <<clients, banned, rooms, user_rooms, room_passwords,
                   users_db, banned_file, th, lock, running, accepting,
                   uname, now, stalled>>

(* srv.accept() times out, the loop tests gui_app.running and ends *)
accept_timeout ==
    /\ accepting /\ ~running
    /\ accepting' = FALSE
    /\ out' = <<>>
    /\ last' = [op |-> "accept_timeout"]
    /\ UNCHANGED <<clients, banned, rooms, user_rooms, room_passwords,
                   users_db, banned_file, pc, th, lock, running, uname,
                   closed, now, stalled>>


---------------------------------------------------------------------------
(* /create, broadcast and send_userlist statement by statement, with       *)
(* clients_lock.  A thread inside "with clients_lock" is the value of      *)
(* lock; a statement outside any with block does not wait for it.          *)

(* The registry as a userlist frame shows it *)
Joint(cl, rm, ur) ==
    [type |-> "userlist", users |-> DOMAIN cl, rooms |-> rm, user_rooms |-> ur]

(* list(clients.items()): the names with the sockets of their sessions *)
Items == [i \in 1 .. Len(InOrder(DOMAIN clients)) |->
             [u |-> InOrder(DOMAIN clients)[i],
              conn |-> clients[InOrder(DOMAIN clients)[i]].conn]]

(* The entries the loop of broadcast passes over (142-145), as far as the  *)
(* next one it sends to                                                    *)
RECURSIVE Skip(_, _, _)
Skip(todo, exclude, room) ==
    IF todo = <<>> THEN todo
    ELSE IF \/ Head(todo).u \in exclude
            \/ Truthy(room) /\ Get(user_rooms, Head(todo).u, NONE) # room
    THEN Skip(Tail(todo), exclude, room)
    ELSE todo

(* Observation, not program state: the values the registry has had since   *)
(* the thread reading it for a userlist frame took the lock                *)
Observe(t, cl, rm, ur) ==
    [x \in Threads |->
        IF x # t /\ pc[x] \in {"userlist_rooms", "userlist_user_rooms"}
        THEN [th[x] EXCEPT !.seen = @ \cup {Joint(cl, rm, ur)}]
        ELSE th[x]]

(* The main loop reads the session under the lock (730-731), runs the      *)
(* auto-unmute, and handle_command reads the session again (258-259);      *)
(* "/create room_name" is split and the thread is at line 308.             *)
CreateBegin(c, room_name) ==
    /\ At(c, "active")
    /\ lock = FREE
    /\ Has(clients, uname[c]) /\ clients[uname[c]].conn = c
    /\ clients' = auto_unmute(Cur, uname[c]).clients
    /\ th' = [th EXCEPT ![c] =
                [sender |-> uname[c], room_name |-> room_name,
                 obj |-> Sys(""), exclude |-> {}, room |-> NONE,
                 todo |-> <<>>, ret |-> <<>>, seen |-> {}]]
    /\ Goto(c, "create_test")
    /\ out' = <<>>
    /\ last' = [op |-> "create_begin", c |-> c, u |-> uname[c]]
    /\ UNCHANGED <<banned, rooms, user_rooms, room_passwords, users_db,
                   banned_file, lock, running, accepting, uname, closed, now, stalled>>

(* line 308: if room_name in rooms *)
CreateTest(c) ==
    /\ At(c, "create_test")
    /\ IF Has(rooms, th[c].room_name)
       THEN /\ out' = send_json(Cur, c,
                   Sys("Room '" \o th[c].room_name \o "' already exists.")).out
            /\ Goto(c, "active")
            /\ th' = [th EXCEPT ![c] = NoLocals]
            /\ last' = [op |-> "create_test", c |-> c, res |-> "exists"]
       ELSE /\ out' = <<>>
            /\ Goto(c, "create_rooms")
            /\ th' = th
            /\ last' = [op |-> "create_test", c |-> c, res |-> "new"]
    /\ UNCHANGED <<clients, banned, rooms, user_rooms, room_passwords,
                   users_db, banned_file, lock, running, accepting, uname,
                   closed, now, stalled>>

(* line 312: rooms[room_name] = set([sender]) *)
CreateRooms(c) ==
    /\ At(c, "create_rooms")
    /\ rooms' = Put(rooms, th[c].room_name, {th[c].sender})
    /\ th' = Observe(c, clients, rooms', user_rooms)
    /\ Goto(c, "create_pointer")
    /\ out' = <<>>
    /\ last' = [op |-> "create_rooms", c |-> c]
    /\ UNCHANGED <<clients, banned, user_rooms, room_passwords, users_db,
                   banned_file, lock, running, accepting, uname, closed, now, stalled>>

(* line 313: user_rooms[sender] = room_name; then the reply to the sender  *)
(* (317-320) and the call of broadcast (321), with send_userlist (325) to  *)
(* follow                                                                  *)
CreatePointer(c) ==
    /\ At(c, "create_pointer")
    /\ c \notin stalled
    /\ user_rooms' = Put(user_rooms, th[c].sender, th[c].room_name)
    /\ out' = send_json(Cur, c,
                 Sys("Created room '" \o th[c].room_name \o "'")).out
    /\ th' = [Observe(c, clients, rooms, user_rooms') EXCEPT ![c] =
                [th[c] EXCEPT
                   !.obj = Sys(th[c].sender \o " created room '"
                               \o th[c].room_name \o "'"),
                   !.ret = <<"userlist", "active">>]]
    /\ Goto(c, "broadcast")
    /\ last' = [op |-> "create_pointer", c |-> c]
    /\ UNCHANGED <<clients, banned, rooms, room_passwords, users_db,
                   banned_file, lock, running, accepting, uname, closed, now, stalled>>

(* broadcast, lines 140-141: the lock is taken and the sessions listed *)
broadcast_enter(t) ==
    /\ At(t, "broadcast")
    /\ lock = FREE
    /\ lock' = t
    /\ LET todo == Skip(Items, th[t].exclude, th[t].room)
       IN  /\ th' = [th EXCEPT ![t].todo = todo]
           /\ Goto(t, IF todo = <<>> THEN "fanout_done" ELSE "fanout_send")
    /\ out' = <<>>
    /\ last' = [op |-> "broadcast_enter", t |-> t]
    /\ UNCHANGED <<clients, banned, rooms, user_rooms, room_passwords,
                   users_db, banned_file, running, accepting, uname, closed,
                   now, stalled>>

(* send_userlist, lines 166 and 169: the lock is taken and the names read *)
userlist_enter(t) ==
    /\ At(t, "userlist")
    /\ lock = FREE
    /\ lock' = t
    /\ th' = [th EXCEPT ![t] =
                [@ EXCEPT !.obj = Joint(clients, EmptyDict, EmptyDict),
                          !.seen = {Joint(clients, rooms, user_rooms)}]]
    /\ Goto(t, "userlist_rooms")
    /\ out' = <<>>
    /\ last' = [op |-> "userlist_enter", t |-> t]
    /\ UNCHANGED <<clients, banned, rooms, user_rooms, room_passwords,
                   users_db, banned_file, running, accepting, uname, closed,
                   now, stalled>>

(* line 170: the rooms are copied *)
userlist_rooms(t) ==
    /\ At(t, "userlist_rooms")
    /\ th' = [th EXCEPT ![t].obj.rooms = rooms]
    /\ Goto(t, "userlist_user_rooms")
    /\ out' = <<>>
    /\ last' = [op |-> "userlist_rooms", t |-> t]
    /\ UNCHANGED <<clients, banned, rooms, user_rooms, room_passwords,
                   users_db, banned_file, lock, running, accepting, uname,
                   closed, now, stalled>>

(* lines 171 and 173: the room pointers are copied and the sessions listed *)
userlist_user_rooms(t) ==
    /\ At(t, "userlist_user_rooms")
    /\ th' = [th EXCEPT ![t] =
                [@ EXCEPT !.obj.user_rooms = user_rooms,
                          !.exclude = {}, !.room = NONE, !.todo = Items]]
    /\ Goto(t, IF Items = <<>> THEN "fanout_done" ELSE "fanout_send")
    /\ out' = <<>>
    /\ last' = [op |-> "userlist_user_rooms", t |-> t]
    /\ UNCHANGED <<clients, banned, rooms, user_rooms, room_passwords,
                   users_db, banned_file, lock, running, accepting, uname,
                   closed, now, stalled>>

(* send_json(info['conn'], obj) inside the loop, lines 147 and 175.        *)
(* sendall on a blocking socket (689) returns when the peer's side has     *)
(* taken the bytes.                                                        *)
fanout_send(t) ==
    /\ At(t, "fanout_send")
    /\ Head(th[t].todo).conn \notin stalled
    /\ out' = send_json(Cur, Head(th[t].todo).conn, th[t].obj).out
    /\ LET todo == Skip(Tail(th[t].todo), th[t].exclude, th[t].room)
       IN  /\ th' = [th EXCEPT ![t].todo = todo]
           /\ Goto(t, IF todo = <<>> THEN "fanout_done" ELSE "fanout_send")
    /\ last' = [op |-> "fanout_send", t |-> t]
    /\ UNCHANGED <<clients, banned, rooms, user_rooms, room_passwords,
                   users_db, banned_file, lock, running, accepting, uname,
                   closed, now, stalled>>

(* the with block is left and the function returns to its caller *)
fanout_done(t) ==
    /\ At(t, "fanout_done")
    /\ lock' = FREE
    /\ Goto(t, Head(th[t].ret))
    /\ th' = [th EXCEPT ![t] =
                IF Len(@.ret) = 1 THEN NoLocals
                ELSE [@ EXCEPT !.ret = Tail(@)]]
    /\ out' = <<>>
    /\ last' = [op |-> "fanout_done", t |-> t]
    /\ UNCHANGED <<clients, banned, rooms, user_rooms, room_passwords,
                   users_db, banned_file, running, accepting, uname, closed,
                   now, stalled>>


---------------------------------------------------------------------------
(* register_user step by step: the credential file is read (load_users,    *)
(* 114), then tested, changed in memory and written back whole             *)
(* (115-118); no lock is taken.                                            *)

(* A register frame that passes the validation of 616-634 arrives and      *)
(* register_user reads the file                                            *)
RegisterLoad(c, obj) ==
    /\ Accepted(c) /\ accepting
    /\ obj.type = "auth" /\ is_register(obj)
    /\ Len(strip(obj.username)) >= MinUsernameLen
    /\ Len(strip(obj.password)) >= MinPasswordLen
    /\ pc' = [pc EXCEPT ![c] = "register_user"]
    /\ th' = [th EXCEPT ![c] = [username |-> strip(obj.username),
                                password |-> strip(obj.password),
                                users |-> users_db]]
    /\ out' = <<>>
    /\ last' = [op |-> "register_load", c |-> c, u |-> strip(obj.username)]
    /\ UNCHANGED <<clients, banned, rooms, user_rooms, room_passwords,
                   users_db, banned_file, lock, running, accepting, uname,
                   closed, now, stalled>>

(* The test on the copy that was read, the write of the changed copy, the  *)
(* answer (637-652) and the end of the thread                              *)
RegisterSave(c) ==
    /\ pc[c] = "register_user"
    /\ LET username == th[c].username
           users == th[c].users
           created == ~Has(users, username)
       IN  /\ users_db' = IF created
                          THEN Put(users, username, th[c].password)
                          ELSE users_db
           /\ Commit(Finally(
                  send_json(Cur, c,
                      Sys(IF created THEN MsgCreated(username)
                                     ELSE MsgExists(username))),
                  c, username))
           /\ last' = [op |-> "register", c |-> c, u |-> username,
                       res |-> IF created THEN "created" ELSE "exists"]
    /\ pc' = [pc EXCEPT ![c] = "idle"]
    /\ th' = [th EXCEPT ![c] = NoLocals]
    /\ UNCHANGED <<lock, running, accepting, uname, now, stalled>>


---------------------------------------------------------------------------
(* /join step by step (328-363).  handle_command reads the sender's        *)
(* session once, under the lock (258-262); the password test, the store of *)
(* a new room's password and the move into the room are separate           *)
(* statements outside the lock.                                            *)

(* pwd = cmd_parts[2] if len(cmd_parts) > 2 else "" (335) *)
JoinPwd(cmd_parts) == IF Len(cmd_parts) > 2 THEN cmd_parts[3] ELSE ""

JoinBegin(c, cmd_parts) ==
    /\ At(c, "active")
    /\ lock = FREE
    /\ Has(clients, uname[c]) /\ clients[uname[c]].conn = c
    /\ Len(cmd_parts) >= 2
    /\ clients' = auto_unmute(Cur, uname[c]).clients
    /\ th' = [th EXCEPT ![c] =
                [sender |-> uname[c], conn |-> c, room_name |-> cmd_parts[2],
                 pwd |-> JoinPwd(cmd_parts)]]
    /\ Goto(c, "join_test")
    /\ out' = <<>>
    /\ last' = [op |-> "join_begin", c |-> c, u |-> uname[c]]
    /\ UNCHANGED <<banned, rooms, user_rooms, room_passwords, users_db,
                   banned_file, lock, running, accepting, uname, closed, now, stalled>>

(* lines 337-342: the tests *)
JoinTest(c) ==
    /\ At(c, "join_test")
    /\ LET res == IF PasswordRefused(Cur, th[c].room_name, th[c].pwd)
                  THEN "refused"
                  ELSE IF StoresPassword(Cur, th[c].room_name, th[c].pwd)
                  THEN "new_password"
                  ELSE "pass"
       IN  /\ out' = IF res = "refused"
                     THEN send_json(Cur, th[c].conn,
                                    Sys(MsgIncorrectPassword)).out
                     ELSE <<>>
           /\ Goto(c, CASE res = "refused" -> "active"
                        [] res = "new_password" -> "join_store"
                        [] OTHER -> "join_move")
           /\ th' = [th EXCEPT ![c] = IF res = "refused" THEN NoLocals ELSE @]
           /\ last' = [op |-> "join_test", c |-> c, res |-> res]
    /\ UNCHANGED <<clients, banned, rooms, user_rooms, room_passwords,
                   users_db, banned_file, lock, running, accepting, uname,
                   closed, now, stalled>>

(* line 344: room_passwords[room_name] = pwd *)
JoinStore(c) ==
    /\ At(c, "join_store")
    /\ room_passwords' = Put(room_passwords, th[c].room_name, th[c].pwd)
    /\ Goto(c, "join_move")
    /\ out' = <<>>
    /\ last' = [op |-> "join_store", c |-> c, room |-> th[c].room_name,
                existing |-> Has(rooms, th[c].room_name),
                open |-> ~Has(room_passwords, th[c].room_name)]
    /\ UNCHANGED <<clients, banned, rooms, user_rooms, users_db, banned_file,
                   th, lock, running, accepting, uname, closed, now, stalled>>

(* lines 345-363: out of the previous room, into the new one, the notices  *)
JoinMove(c) ==
    /\ At(c, "join_move")
    /\ lock = FREE
    /\ Commit(join_move(Cur, th[c].conn, th[c].sender, th[c].room_name))
    /\ Goto(c, "active")
    /\ th' = [th EXCEPT ![c] = NoLocals]
    /\ last' = [op |-> "join_move", c |-> c, u |-> th[c].sender,
                room |-> th[c].room_name]
    /\ UNCHANGED <<users_db, lock, running, accepting, uname, now, stalled>>


---------------------------------------------------------------------------
(* Peers that do not read.  The main loop puts the socket in blocking mode *)
(* without a timeout (689), so sendall waits for as long as the peer's     *)
(* window and the local buffer stay full.                                  *)

PeerStalls(c) ==
    /\ pc[c] # "idle" /\ c \notin closed /\ c \notin stalled
    /\ stalled' = stalled \cup {c}
    /\ out' = <<>>
    /\ last' = [op |-> "peer_stalls", c |-> c]
    /\ UNCHANGED <<clients, banned, rooms, user_rooms, room_passwords,
                   users_db, banned_file, pc, th, lock, running, accepting,
                   uname, closed, now>>

PeerResumes(c) ==
    /\ c \in stalled
    /\ stalled' = stalled \ {c}
    /\ out' = <<>>
    /\ last' = [op |-> "peer_resumes", c |-> c]
    /\ UNCHANGED <<clients, banned, rooms, user_rooms, room_passwords,
                   users_db, banned_file, pc, th, lock, running, accepting,
                   uname, closed, now>>


(* The clock *)
Tick ==
    /\ now < MaxTime
    /\ now' = now + 1
    /\ out' = <<>>
    /\ last' = [op |-> "tick"]
    /\ UNCHANGED <<clients, banned, rooms, user_rooms, room_passwords,
                   users_db, banned_file, pc, uname, closed>>
    /\ WholeStep

---------------------------------------------------------------------------
(* Specifications *)

InitWith(db) ==
    /\ clients = EmptyDict
    /\ banned = {}
    /\ rooms = EmptyDict
    /\ user_rooms = EmptyDict
    /\ room_passwords = EmptyDict
    /\ users_db = db
    /\ banned_file = <<>>
    /\ pc = [t \in Threads |-> IF t = Console THEN "mainloop" ELSE "idle"]
    /\ th = [t \in Threads |-> NoLocals]
    /\ lock = FREE
    /\ running = TRUE
    /\ accepting = TRUE
    /\ uname = [c \in Conns |-> NONE]
    /\ closed = {}
    /\ stalled = {}
    /\ now = 1
    /\ out = <<>>
    /\ last = [op |-> "init"]

(* Frames a client sends *)
Cmd(tokens) == [type |-> "command", command |-> tokens]
Bcast(m) == [type |-> "broadcast", message |-> m]
Priv(to, m) == [type |-> "private", to |-> to, message |-> m]

PasswordOf == [u \in Users |->
                 CASE u = "alice" -> "secret1"
                   [] u = "bob" -> "hunter22"
                   [] u = "carol" -> "letmein1"]

Login(u) == AuthFrame(u, PasswordOf[u], FALSE)

StoredUsers == [u \in {"alice", "bob"} |-> PasswordOf[u]]
AllStored == [u \in Users |-> PasswordOf[u]]

Pair == {"alice", "bob"}

(* The steps every specification has: the handshake and the disconnect *)
Lifecycle(K, objs) ==
    \/ \E c \in 1 .. K, obj \in objs : FirstFrame(c, obj)
    \/ \E c \in Conns : JoinBanCheck(c)
    \/ \E c \in Conns : JoinRegister(c)
    \/ \E c \in Conns : Disconnect(c)

---------------------------------------------------------------------------
(* Spec: sessions, authentication and bans *)

Init == InitWith(StoredUsers)

AuthObjs ==
    {AuthFrame(u, p, r) : u \in Pair,
                          p \in {PasswordOf["alice"], PasswordOf["bob"]},
                          r \in BOOLEAN}

SessionCmds ==
    {Cmd(<<"/admin", ADMIN_PASSWORD>>), Cmd(<<"/join", "gaming">>)}
    \cup {Cmd(<<n, u>>) : n \in {"/ban", "/unban"}, u \in Pair}

Next ==
    \/ Lifecycle(PairConns, AuthObjs)
    \/ \E c \in Conns, data \in SessionCmds : Recv(c, data)
    \/ \E u \in Pair : quick_ban(u)
    \/ \E u \in Pair : quick_unban(u)

Spec == Init /\ [][Next]_vars

---------------------------------------------------------------------------
(* SpecRooms: room membership under /create, /join, /leave, /kick, /ban    *)
(* and disconnects                                                         *)

RoomCmds ==
    {Cmd(<<n, r>>) : n \in {"/create", "/join"}, r \in RoomNames}
    \cup {Cmd(<<"/LEAVE">>), Cmd(<<"/admin", ADMIN_PASSWORD>>),
          Cmd(<<"/Kick", "bob">>), Cmd(<<"/BAN", "bob">>)}

NextRooms ==
    \/ Lifecycle(PairConns, {Login(u) : u \in Pair})
    \/ \E c \in Conns, data \in RoomCmds : Recv(c, data)

SpecRooms == Init /\ [][NextRooms]_vars

---------------------------------------------------------------------------
(* SpecMute: the mute window against the clock *)

MuteFrames ==
    {Cmd(<<"/admin", ADMIN_PASSWORD>>), Cmd(<<"/mute", "bob", "2">>),
     Cmd(<<"/mute", "bob", "-1">>), Cmd(<<"/mute", "bob", "soon">>),
     Cmd(<<"/unmute", "bob">>), Bcast("hi"), Priv("alice", "psst")}

NextMute ==
    \/ Lifecycle(PairConns, {Login(u) : u \in Pair})
    \/ \E c \in Conns, data \in MuteFrames : Recv(c, data)
    \/ quick_mute("bob", 1)
    \/ Tick

SpecMute == Init /\ [][NextMute]_vars

---------------------------------------------------------------------------
(* SpecChat: routing of private and broadcast frames among three sessions *)

InitChat == InitWith(AllStored)

ChatFrames ==
    {Priv(to, "psst") : to \in Users}

NextChat ==
    \/ Lifecycle(NumConns, {Login(u) : u \in Users})
    \/ \E c \in Conns, data \in ChatFrames : Recv(c, data)

SpecChat == InitChat /\ [][NextChat]_vars

---------------------------------------------------------------------------
(* SpecCmd: the command dispatcher, with and without the admin flag *)

GatedCmds ==
    {Cmd(<<"/mute", "bob", "2">>), Cmd(<<"/unmute", "bob">>),
     Cmd(<<"/kick", "bob">>), Cmd(<<"/BAN", "bob">>),
     Cmd(<<"/unban", "bob">>), Cmd(<<"/listbans">>),
     Cmd(<<"/announce", "hello">>)}

OtherCmds ==
    {Cmd(<<"/admin", ADMIN_PASSWORD>>), Cmd(<<"/dance">>)}

NextCmd ==
    \/ Lifecycle(PairConns, {Login(u) : u \in Pair})
    \/ \E c \in Conns, data \in GatedCmds \cup OtherCmds : Recv(c, data)
    \/ Tick

SpecCmd == Init /\ [][NextCmd]_vars

---------------------------------------------------------------------------
(* SpecScenario: a new account, a password-protected room and a second     *)
(* login under the name in use                                             *)

InitScenario == InitWith([u \in {"bob"} |-> PasswordOf[u]])

ScenarioAuth ==
    {AuthFrame("alice", PasswordOf["alice"], TRUE), Login("alice"), Login("bob")}

ScenarioCmds ==
    {Cmd(<<"/create", "gaming", "pw123">>), Cmd(<<"/join", "gaming", "wrongpw">>),
     Cmd(<<"/join", "gaming", "pw123">>)}

NextScenario ==
    \/ Lifecycle(PairConns, ScenarioAuth)
    \/ \E c \in Conns, data \in ScenarioCmds : Recv(c, data)

SpecScenario == InitScenario /\ [][NextScenario]_vars

---------------------------------------------------------------------------
(* SpecFrames: file frames around the size limit, and frames that are not  *)
(* what the main loop expects                                              *)

File(to, size) ==
    [type |-> "file", to |-> to, filename |-> "notes.txt", size |-> size]

FileFrames ==
    {File(to, size) : to \in {"All", "bob"},
                      size \in {MAX_FILE_SIZE, MAX_FILE_SIZE + 1}}

OddFrames ==
    {[type |-> "invalid_json"], [type |-> "non_object"], [type |-> "dance"]}

NextFrames ==
    \/ Lifecycle(PairConns, {Login(u) : u \in Pair})
    \/ \E c \in Conns, data \in FileFrames \cup OddFrames : Recv(c, data)

SpecFrames == Init /\ [][NextFrames]_vars

---------------------------------------------------------------------------
(* SpecClose: the ways a session ends (disconnect, /kick, /ban, the        *)
(* console's kick), interleaved; SpecCloseLive adds that the server and    *)
(* its clients never all stop.                                             *)

CloseCmds ==
    {Cmd(<<"/admin", ADMIN_PASSWORD>>), Cmd(<<"/kick", "bob">>),
     Cmd(<<"/ban", "bob">>), Cmd(<<"/unban", "bob">>)}

NextClose ==
    \/ Lifecycle(PairConns, {Login(u) : u \in Pair})
    \/ \E c \in Conns, data \in CloseCmds : Recv(c, data)
    \/ \E u \in Pair : quick_kick(u)

SpecClose == Init /\ [][NextClose]_vars

SpecCloseLive == SpecClose /\ WF_vars(NextClose)

---------------------------------------------------------------------------
(* SpecAuth: the first frame of a connection, with names that are banned,  *)
(* stored or new                                                           *)

FirstFrames ==
    {AuthFrame(u, PasswordOf[u], r) : u \in Pair, r \in BOOLEAN}
    \cup {[type |-> "timeout"], [type |-> "invalid_json"],
          [type |-> "non_object"], Bcast("hi")}

NextAuth ==
    \/ Lifecycle(PairConns, FirstFrames)
    \/ \E u \in Pair : quick_ban(u)
    \/ \E u \in Pair : quick_unban(u)

SpecAuth == InitScenario /\ [][NextAuth]_vars

---------------------------------------------------------------------------
(* SpecAdmin: /admin with the right, a wrong and no password, across       *)
(* sessions that end and names that log in again                           *)

AdminCmds ==
    {Cmd(<<"/admin", ADMIN_PASSWORD>>), Cmd(<<"/admin", "letmein">>),
     Cmd(<<"/admin">>), Cmd(<<"/kick", "alice">>), Cmd(<<"/kick", "bob">>)}

NextAdmin ==
    \/ Lifecycle(PairConns, {Login(u) : u \in Pair})
    \/ \E c \in Conns, data \in AdminCmds : Recv(c, data)

SpecAdmin == Init /\ [][NextAdmin]_vars

---------------------------------------------------------------------------
(* SpecJoin: /join on a room with a stored password, from another room     *)

JoinCmds ==
    {Cmd(<<"/create", "gaming", "pw123">>), Cmd(<<"/create", "lobby">>),
     Cmd(<<"/join", "gaming", "wrongpw">>), Cmd(<<"/join", "gaming">>),
     Cmd(<<"/join", "gaming", "pw123">>), Cmd(<<"/join", "lobby">>)}

NextJoin ==
    \/ Lifecycle(PairConns, {Login(u) : u \in Pair})
    \/ \E c \in Conns, data \in JoinCmds : Recv(c, data)

SpecJoin == Init /\ [][NextJoin]_vars

---------------------------------------------------------------------------
(* SpecBroadcast: broadcast requests among three sessions, in and out of   *)
(* rooms                                                                   *)

(* What each client sends: everyone broadcasts, alice and bob join gaming,  *)
(* bob also joins lobby, carol stays outside the rooms                     *)
BroadcastFrames(u) ==
    {Bcast("hi")}
    \cup (IF u \in Pair THEN {Cmd(<<"/join", "gaming">>)} ELSE {})
    \cup (IF u = "bob" THEN {Cmd(<<"/join", "lobby">>)} ELSE {})

NextBroadcast ==
    \/ Lifecycle(NumConns, {Login(u) : u \in Users})
    \/ \E c \in Conns : \E data \in BroadcastFrames(uname[c]) : Recv(c, data)

SpecBroadcast == InitChat /\ [][NextBroadcast]_vars

---------------------------------------------------------------------------
(* SpecFanout: broadcasts while the connection of a registered session is  *)
(* broken                                                                  *)

(* The peer of c is gone (reset, cable pulled): from now on a send on c    *)
(* raises; the handler learns of it when its recv fails (Disconnect).      *)
PeerReset(c) ==
    /\ pc[c] = "active" /\ c \notin closed
    /\ closed' = closed \cup {c}
    /\ out' = <<>>
    /\ last' = [op |-> "peer_reset", c |-> c]
    /\ UNCHANGED <<clients, banned, rooms, user_rooms, room_passwords,
                   users_db, banned_file, pc, uname, now>>
    /\ WholeStep

NextFanout ==
    \/ Lifecycle(NumConns, {Login(u) : u \in Users})
    \/ \E c \in Conns : Recv(c, Bcast("hi"))
    \/ \E c \in Conns : PeerReset(c)

SpecFanout == InitChat /\ [][NextFanout]_vars

---------------------------------------------------------------------------
(* SpecBans: two admins and the console change the ban list at the same    *)
(* time                                                                    *)

(* The handlers ban and unban carol, the console also bob *)
BanTargets(t) == IF t = Console THEN {"bob", "carol"} ELSE {"carol"}

NextBans ==
    \/ Lifecycle(PairConns, {Login(u) : u \in Pair})
    \/ \E c \in Conns : Recv(c, Cmd(<<"/admin", ADMIN_PASSWORD>>))
    \/ \E t \in Threads : \E u \in BanTargets(t) : BanAdd(t, u)
    \/ \E t \in Threads : \E u \in BanTargets(t) : BanRemove(t, u)
    \/ \E t \in Threads : SaveOpen(t)
    \/ \E t \in Threads : SaveSorted(t)
    \/ \E t \in Threads : SaveClose(t)
    \/ \E t \in Threads : BanDone(t)

SpecBans == Init /\ [][NextBans]_vars

---------------------------------------------------------------------------
(* SpecShutdown: the administrator closes the window while clients are     *)
(* logged in and logging in                                                *)

NextShutdown ==
    \/ Lifecycle(PairConns, {Login(u) : u \in Pair})
    \/ on_close
    \/ on_close_notify
    \/ on_close_conns
    \/ accept_timeout

SpecShutdown == Init /\ [][NextShutdown]_vars

---------------------------------------------------------------------------
(* SpecRace: two sessions send /create for the same room name              *)

CreateSteps(names) ==
    \/ \E c \in Conns, r \in names : CreateBegin(c, r)
    \/ \E c \in Conns : CreateTest(c)
    \/ \E c \in Conns : CreateRooms(c)
    \/ \E c \in Conns : CreatePointer(c)
    \/ \E c \in Conns : broadcast_enter(c)
    \/ \E c \in Conns : userlist_enter(c)
    \/ \E c \in Conns : userlist_rooms(c)
    \/ \E c \in Conns : userlist_user_rooms(c)
    \/ \E c \in Conns : fanout_send(c)
    \/ \E c \in Conns : fanout_done(c)

NextRace ==
    \/ Lifecycle(PairConns, {Login(u) : u \in Pair})
    \/ CreateSteps({"gaming"})

SpecRace == Init /\ [][NextRace]_vars

(* SpecSnapshot: two sessions send /create, for any room name *)

NextSnapshot ==
    \/ Lifecycle(PairConns, {Login(u) : u \in Pair})
    \/ CreateSteps(RoomNames)

SpecSnapshot == Init /\ [][NextSnapshot]_vars

---------------------------------------------------------------------------
(* SpecBroken: two users broadcast while connections break.  A blocking    *)
(* recv on a broken connection returns or raises, so the handler of a      *)
(* broken connection eventually leaves its loop (694-710).                 *)
RecvFails(c) == c \in closed /\ Disconnect(c)

NextBroken ==
    \/ Lifecycle(PairConns, {Login(u) : u \in Pair})
    \/ \E c \in Conns : Recv(c, Bcast("hi"))
    \/ \E c \in Conns : PeerReset(c)

SpecBroken ==
    InitChat /\ [][NextBroken]_vars /\ \A c \in Conns : WF_vars(RecvFails(c))

---------------------------------------------------------------------------
(* SpecFiles: file frames as the repository's client sends them (without a *)
(* from field, client.py 1660-1666) and file frames that name a sender     *)

FileFrom(to, from) ==
    [type |-> "file", to |-> to, filename |-> "notes.txt", size |-> 1,
     from |-> from]

UploadFrames ==
    {File(to, 1) : to \in {"All", "bob"}}
        \cup {FileFrom(to, from) : to \in {"All", "bob"}, from \in Pair}

NextFiles ==
    \/ Lifecycle(PairConns, {Login(u) : u \in Pair})
    \/ \E c \in Conns, data \in UploadFrames : Recv(c, data)

SpecFiles == Init /\ [][NextFiles]_vars

---------------------------------------------------------------------------
(* SpecRaise: private and file frames whose "to" value is an array, next   *)
(* to well-formed ones                                                     *)

RaisingFrames ==
    {Priv(to, "psst") : to \in {"bob", Unhashable}}
        \cup {File(to, 1) : to \in {"bob", Unhashable}}

NextRaise ==
    \/ Lifecycle(PairConns, {Login(u) : u \in Pair})
    \/ \E c \in Conns, data \in RaisingFrames : Recv(c, data)

SpecRaise == Init /\ [][NextRaise]_vars

---------------------------------------------------------------------------
(* SpecRegister: registrations of new and of stored names on connections   *)
(* that are handled at the same time                                       *)

RegisterFrames ==
    {AuthFrame("carol", p, TRUE) : p \in {"letmein1", "other123"}}
        \cup {AuthFrame("dave", "davepass", TRUE),
              AuthFrame("alice", "newpass1", TRUE)}

NextRegister ==
    \/ \E c \in Conns, obj \in RegisterFrames : RegisterLoad(c, obj)
    \/ \E c \in Conns : RegisterSave(c)

SpecRegister == Init /\ [][NextRegister]_vars

---------------------------------------------------------------------------
(* SpecJoinSteps: /join commands of two users on one room name, with and   *)
(* without a password, statement by statement, while the console kicks     *)

JoinSteps(cmds) ==
    \/ \E c \in Conns, cmd_parts \in cmds : JoinBegin(c, cmd_parts)
    \/ \E c \in Conns : JoinTest(c)
    \/ \E c \in Conns : JoinStore(c)
    \/ \E c \in Conns : JoinMove(c)

NextJoinSteps ==
    \/ Lifecycle(PairConns, {Login(u) : u \in Pair})
    \/ JoinSteps({<<"/join", "gaming">>, <<"/join", "gaming", "pw123">>})
    \/ quick_kick("alice")

SpecJoinSteps == Init /\ [][NextJoinSteps]_vars

---------------------------------------------------------------------------
(* SpecReopen: a room name is used with a password, its room goes away,    *)
(* and the name is used again without one                                  *)

ReopenCmds ==
    {Cmd(<<"/create", "gaming", "pw123">>), Cmd(<<"/create", "gaming">>),
     Cmd(<<"/join", "gaming">>), Cmd(<<"/leave">>)}

NextReopen ==
    \/ Lifecycle(PairConns, {Login(u) : u \in Pair})
    \/ \E c \in Conns, data \in ReopenCmds : Recv(c, data)

SpecReopen == Init /\ [][NextReopen]_vars

---------------------------------------------------------------------------
(* SpecMuted: what a muted user can still send: /me actions and files,     *)
(* next to a broadcast                                                     *)

MutedFrames ==
    {Bcast("hi"), Cmd(<<"/me", "waves">>), File("All", 1), File("alice", 1)}

NextMuted ==
    \/ Lifecycle(PairConns, {Login(u) : u \in Pair})
    \/ \E c \in Conns, data \in MutedFrames : Recv(c, data)
    \/ quick_mute("bob", 2)
    \/ Tick

SpecMuted == Init /\ [][NextMuted]_vars

---------------------------------------------------------------------------
(* SpecStall: /create commands statement by statement while peers stop    *)
(* and resume reading.  Every thread that can take a step eventually takes *)
(* one, and a thread that finds the lock free again and again eventually   *)
(* takes it; nothing makes a peer read.                                    *)

ThreadStep(t) ==
    \/ CreateTest(t)
    \/ CreateRooms(t)
    \/ CreatePointer(t)
    \/ broadcast_enter(t)
    \/ userlist_enter(t)
    \/ userlist_rooms(t)
    \/ userlist_user_rooms(t)
    \/ fanout_send(t)
    \/ fanout_done(t)

NextStall ==
    \/ Lifecycle(PairConns, {Login(u) : u \in Pair})
    \/ CreateSteps({"gaming"})
    \/ \E c \in Conns : PeerStalls(c)
    \/ \E c \in Conns : PeerResumes(c)

SpecStall ==
    Init /\ [][NextStall]_vars /\ \A t \in Conns : SF_vars(ThreadStep(t))

---------------------------------------------------------------------------
(* Properties *)

Range(q) == {q[i] : i \in 1 .. Len(q)}

(* Frames written to connection c by the last step, in order *)
SentTo(c) == SelectSeq(out, LAMBDA e : e.to = c)

LeftNotice(u) == Sys(u \o " left the chat.")

(* The live handlers of a username: in the main loop, socket open *)
LiveHandlers(u) ==
    {c \in Conns : pc[c] = "active" /\ uname[c] = u /\ c \notin closed}

C1_Registry ==
    /\ \A u \in Users : Cardinality(LiveHandlers(u)) <= 1
    /\ \A u \in DOMAIN clients : LiveHandlers(u) = {clients[u].conn}

C1_RegisterStep ==
    \A c \in Conns :
        (pc[c] = "register" /\ pc'[c] # "register") =>
            IF Has(clients, uname[c])
            THEN /\ pc'[c] = "idle"
                 /\ SentTo(c)' = <<[to |-> c, f |-> Sys(MsgInUse)]>>
                 /\ LiveHandlers(uname[c])' \subseteq LiveHandlers(uname[c])
            ELSE /\ pc'[c] = "active"
                 /\ LiveHandlers(uname[c])' = {c}
                 /\ clients'[uname[c]].conn = c

(* C1: a username has at most one live session, the one the registry       *)
(* holds; of the connections that reach registration under the same name   *)
(* the first is registered and every other one, as long as the name is     *)
(* held, is rejected with "Username already in use." and registers nothing.*)
C1_UniqueSession == C1_Registry /\ [][C1_Registry' /\ C1_RegisterStep]_vars

(* Two handlers raced for one name: one is registered, the other is still  *)
(* waiting for the lock.                                                   *)
C1_Witness ==
    /\ last.op = "join" /\ last.res = "registered"
    /\ \E c \in Conns : c # last.c /\ pc[c] = "register" /\ uname[c] = last.u

RejectedAuth == {"bad_credentials", "in_use", "banned", "exists", "created"}

(* C2: a rejected authentication attempt (wrong password, name in use,     *)
(* banned name, register request) changes neither the sessions nor the     *)
(* rooms, and writes no "left the chat" notice.                            *)
C2_RejectedAuthChangesNothing ==
    [][(last'.op \in {"auth", "join"} /\ last'.res \in RejectedAuth) =>
          /\ UNCHANGED <<clients, rooms, user_rooms>>
          /\ \A e \in Range(out') : e.f # LeftNotice(last'.u)]_vars

(* The step just taken is a command frame named name, dispatched for a    *)
(* registered sender                                                       *)
CommandStep(name) ==
    /\ last'.op = "recv" /\ last'.res = "handled"
    /\ last'.data.type = "command"
    /\ last'.data.command # <<>>
    /\ lower(last'.data.command[1]) = name
    /\ Has(clients, last'.u)

ByAdmin == clients[last'.u].is_admin

C7_Banned(u) ==
    \/ last'.op = "quick_ban" /\ last'.u = u
    \/ /\ CommandStep("/ban") /\ ByAdmin
       /\ Len(last'.data.command) >= 2 /\ last'.data.command[2] = u

C7_Unbanned(u) ==
    \/ last'.op = "quick_unban" /\ last'.u = u
    \/ /\ CommandStep("/unban") /\ ByAdmin
       /\ Len(last'.data.command) >= 2 /\ last'.data.command[2] = u

C7_Step ==
    \A u \in Users :
        \* the ban removes u's session, its room pointer and its membership
        /\ C7_Banned(u) =>
              /\ u \in banned'
              /\ ~Has(clients', u)
              /\ ~Has(user_rooms', u)
              /\ \A r \in DOMAIN rooms' :
                    Get(user_rooms, u, NONE) = r => u \notin rooms'[r]
              /\ Has(clients, u) => clients[u].conn \in closed'
        \* the name stays on the list until it is unbanned
        /\ (u \in banned /\ u \notin banned') => C7_Unbanned(u)
        \* the ban test of handle_join decides by the list alone
        /\ \A c \in Conns :
              (pc[c] = "handle_join" /\ uname[c] = u /\ pc'[c] # "handle_join") =>
                  IF u \in banned
                  THEN /\ pc'[c] = "idle"
                       /\ ~Has(clients', u)
                       /\ SentTo(c)' = <<[to |-> c,
                              f |-> Sys("You are banned from this server.")]>>
                  ELSE pc'[c] = "register"
        \* and a name that is free and not banned is registered
        /\ \A c \in Conns :
              (pc[c] = "register" /\ uname[c] = u /\ pc'[c] # "register"
                 /\ ~Has(clients, u)) => clients'[u].conn = c

---------------------------------------------------------------------------
(* Room membership *)

PointsTo(r) == {u \in DOMAIN user_rooms : user_rooms[u] = r}

(* C3: for every room r the member set rooms[r] is exactly the set of      *)
(* usernames whose room pointer is r (no members and no pointers for a     *)
(* name that is not a key).                                                *)
C3_MembersArePointers ==
    \A r \in RoomNames : Get(rooms, r, {}) = PointsTo(r)

SessionEnds(u) == Has(clients, u) /\ ~Has(clients', u)

PointerLeaves(u, r) ==
    Get(user_rooms, u, NONE) = r /\ Get(user_rooms', u, NONE) # r

C4_Step ==
    \A r \in DOMAIN rooms :
        \* the last member goes: the room goes
        /\ \A u \in Users :
              (rooms[r] = {u} /\ (SessionEnds(u) \/ PointerLeaves(u, r)))
                  => ~Has(rooms', r)
        \* a room goes only with its last member
        /\ ~Has(rooms', r) => Cardinality(rooms[r]) = 1

(* C4: a room is a key of the room map iff its member set is non-empty:    *)
(* it is deleted in the step in which its last member leaves, moves to     *)
(* another room, is kicked, banned or disconnects, and in no other step.   *)
C4_RoomIffMembers ==
    /\ \A r \in DOMAIN rooms : rooms[r] # {}
    /\ [][C4_Step]_vars

RoomsOf(u) == {r \in DOMAIN rooms : u \in rooms[r]}

C5_CreateStep ==
    \A r \in RoomNames :
        (/\ CommandStep("/create")
         /\ Len(last'.data.command) >= 2 /\ last'.data.command[2] = r
         /\ ~Has(rooms, r))
        => LET u == last'.u
               p == Get(user_rooms, u, NONE)
           IN  /\ {q \in DOMAIN rooms' : u \in rooms'[q]} = {r}
               /\ (Truthy(p) /\ p # r /\ Has(rooms, p)) =>
                     IF rooms[p] \subseteq {u}
                     THEN ~Has(rooms', p)
                     ELSE rooms'[p] = rooms[p] \ {u}

(* C5: a username is a member of at most one room; a successful /create r  *)
(* by a caller whose room is p leaves the caller a member of r only, takes *)
(* it out of p and deletes p if that emptied it.                           *)
C5_OneRoomPerUser ==
    /\ \A u \in Users : Cardinality(RoomsOf(u)) <= 1
    /\ [][C5_CreateStep]_vars

---------------------------------------------------------------------------
(* Mute windows *)

ChatStep ==
    /\ last'.op = "recv" /\ last'.res \in {"muted", "handled"}
    /\ last'.data.type \in {"broadcast", "private"}
    /\ Has(clients, last'.u) /\ clients[last'.u].conn = last'.c

MuteTarget(name, u) ==
    /\ CommandStep(name) /\ ByAdmin
    /\ Len(last'.data.command) >= 2 /\ last'.data.command[2] = u
    /\ Has(clients, u)

(* an admin's /mute u s at time now sets the expiry of u to now + s *)
C6_MuteSets ==
    \A u \in Users :
        (/\ MuteTarget("/mute", u)
         /\ Len(last'.data.command) >= 3 /\ IsIntStr(last'.data.command[3]))
        => clients'[u].muted_until = now + ParseInt(last'.data.command[3])

(* the expiry of a session stays as set until it is set again or has passed *)
C6_ExpiryKept ==
    \A u \in Users :
        (/\ Has(clients, u) /\ Has(clients', u)
         /\ clients'[u].muted_until # clients[u].muted_until)
        => \/ MuteTarget("/mute", u) \/ MuteTarget("/unmute", u)
           \/ last'.op = "quick_mute" /\ last'.u = u
           \/ /\ last'.op = "recv" /\ last'.u = u
              /\ clients[u].muted_until < now /\ clients'[u].muted_until = 0

Audience(u) ==
    LET r == Get(user_rooms, u, NONE)
    IN  (IF Truthy(r) THEN Get(rooms, r, {}) \cap DOMAIN clients
                      ELSE DOMAIN clients) \ {u}

Delivered(u, data) ==
    LET f == [type |-> data.type, from |-> u, message |-> data.message,
              timestamp |-> now]
    IN  /\ data.type = "broadcast" =>
              \A v \in Audience(u) : [to |-> clients[v].conn, f |-> f] \in Range(out')
        /\ (data.type = "private" /\ Has(clients, data.to)) =>
              [to |-> clients[data.to].conn, f |-> f] \in Range(out')
        /\ \A e \in Range(out') : e.f # Sys(MsgMuted)

(* a chat request of u at time now is dropped with the mute notice iff     *)
(* now is before the expiry, and delivered otherwise                       *)
C6_Request ==
    ChatStep =>
        IF now < clients[last'.u].muted_until
        THEN out' = <<[to |-> last'.c, f |-> Sys(MsgMuted)]>>
        ELSE Delivered(last'.u, last'.data)

(* C6: an admin's mute of u for s seconds at time t sets u's expiry to     *)
(* t + s; while that expiry stands, a broadcast or private request of u    *)
(* at a time before t + s gets only the mute notice and reaches nobody,    *)
(* and one at a time >= t + s is delivered.                                *)
C6_MuteWindow == [][C6_MuteSets /\ C6_ExpiryKept /\ C6_Request]_vars

C6_Witness ==
    /\ last.op = "recv" /\ last.res = "handled" /\ last.u = "bob"
    /\ last.data.type = "broadcast"
    /\ Has(clients, "bob") /\ clients["bob"].muted_until = now /\ now >= 2
    /\ Has(clients, "alice")
    /\ \E e \in Range(out) : e.to = clients["alice"].conn /\ e.f.type = "broadcast"

---------------------------------------------------------------------------
(* Private messages *)

PrivateFrame(u, data) ==
    [type |-> "private", from |-> u, message |-> data.message,
     timestamp |-> now]

(* C8: a private request of the active user A (on its own connection) to   *)
(* an active user B writes exactly two frames: one to B's connection and   *)
(* one back to A's, both the same frame with from = A, the text sent and   *)
(* the server's timestamp; nothing is written to any other connection.     *)
C8_PrivateRouting ==
    (/\ last.op = "recv" /\ last.res = "handled"
     /\ last.data.type = "private"
     /\ Has(clients, last.u) /\ clients[last.u].conn = last.c
     /\ Has(clients, last.data.to))
    => out = << [to |-> clients[last.data.to].conn,
                 f |-> PrivateFrame(last.u, last.data)],
                [to |-> last.c, f |-> PrivateFrame(last.u, last.data)] >>

C8_Witness ==
    /\ last.op = "recv" /\ last.res = "handled" /\ last.data.type = "private"
    /\ last.u = "alice" /\ last.data.to = "bob"
    /\ Users \subseteq DOMAIN clients
    /\ clients["alice"].conn = last.c
    /\ Len(out) = 2 /\ out[1].to = clients["bob"].conn /\ out[2].to = last.c
    /\ out[1].f = out[2].f

---------------------------------------------------------------------------
(* Commands without effect *)

Recognized ==
    {"/admin", "/list", "/users", "/whoami", "/create", "/join", "/leave",
     "/rooms", "/me", "/help", "/?"} \cup AdminGated

AnyCommandStep ==
    /\ last'.op = "recv" /\ last'.res = "handled"
    /\ last'.data.type = "command" /\ last'.data.command # <<>>
    /\ Has(clients, last'.u)

RefusedStep ==
    /\ AnyCommandStep
    /\ \/ lower(last'.data.command[1]) \notin Recognized
       \/ /\ lower(last'.data.command[1]) \in AdminGated
          /\ ~clients[last'.u].is_admin

(* C9 as stated: an unrecognized command, and an admin-gated command of a  *)
(* session whose admin flag is false, leave sessions, mute expiries, admin *)
(* flags, rooms, room pointers, room passwords and the ban list unchanged. *)
C9_RefusedChangesNothing ==
    [][RefusedStep =>
          UNCHANGED <<clients, banned, rooms, user_rooms, room_passwords>>]_vars

(* C9 amended: such a command leaves the registry unchanged except that    *)
(* the sender's own mute expiry, if it has already passed, is reset to 0.  *)
C9_RefusedChangesOnlyExpiredMute ==
    [][RefusedStep =>
          /\ UNCHANGED <<banned, rooms, user_rooms, room_passwords>>
          /\ clients' = [clients EXCEPT ![last'.u].muted_until =
                                            IF @ < now THEN 0 ELSE @]]_vars

C9_Witness ==
    /\ last.op = "recv" /\ last.res = "handled" /\ last.data.type = "command"
    /\ last.u = "alice" /\ lower(last.data.command[1]) = "/ban"
    /\ Has(clients, "alice") /\ ~clients["alice"].is_admin
    /\ Has(clients, "bob") /\ "bob" \notin banned

(* C10: an admin-gated command of a non-admin is answered with the one     *)
(* frame "Admin rights required" and nothing else.                         *)
C10_OnlyAdminRequired ==
    [][(/\ AnyCommandStep
        /\ lower(last'.data.command[1]) \in AdminGated
        /\ ~clients[last'.u].is_admin)
       => out' = <<[to |-> clients[last'.u].conn,
                    f |-> Sys(MsgAdminRequired)]>>]_vars

---------------------------------------------------------------------------
(* The scenario of the password-protected room *)

CommandIs(tokens) ==
    /\ AnyCommandStep /\ last'.data.command = tokens
    /\ clients[last'.u].conn = last'.c

Only(c, m) == <<[to |-> c, f |-> Sys(m)]>>

(* alice's /create gaming pw123 makes the room, hers alone, with the password *)
C11_Create ==
    (CommandIs(<<"/create", "gaming", "pw123">>) /\ last'.u = "alice"
        /\ ~Has(rooms, "gaming"))
    => /\ Get(rooms', "gaming", {}) = {"alice"}
       /\ Get(room_passwords', "gaming", NONE) = "pw123"

(* a second login as alice is refused and the first session goes on *)
C11_SecondLogin ==
    (/\ last'.op = "join" /\ last'.res \in {"registered", "in_use"}
     /\ last'.u = "alice" /\ Has(clients, "alice"))
    => /\ [to |-> last'.c, f |-> Sys(MsgInUse)] \in Range(out')
       /\ UNCHANGED <<clients, rooms, user_rooms, room_passwords>>

(* bob's /join with the wrong password is refused *)
C11_WrongPassword ==
    (CommandIs(<<"/join", "gaming", "wrongpw">>) /\ last'.u = "bob"
        /\ Get(room_passwords, "gaming", NONE) = "pw123")
    => /\ out' = Only(last'.c, MsgIncorrectPassword)
       /\ UNCHANGED <<clients, rooms, user_rooms, room_passwords>>

(* bob's /join with the password puts him in the room, next to alice *)
C11_RightPassword ==
    (CommandIs(<<"/join", "gaming", "pw123">>) /\ last'.u = "bob"
        /\ Get(rooms, "gaming", {}) = {"alice"}
        /\ Get(room_passwords, "gaming", NONE) = "pw123")
    => Get(rooms', "gaming", {}) = {"alice", "bob"}

(* C11: every step of the scenario does what the scenario says: the        *)
(* /create succeeds, the second login as alice is refused with "already    *)
(* in use" and leaves alice and her room as they are, the wrong password   *)
(* is refused, and the right one makes the members exactly {alice, bob}.   *)
C11_Scenario ==
    [][C11_Create /\ C11_SecondLogin /\ C11_WrongPassword
       /\ C11_RightPassword]_vars

---------------------------------------------------------------------------
(* Frames of the main loop *)

LiveRecv ==
    /\ last'.op = "recv"
    /\ Has(clients, last'.u) /\ clients[last'.u].conn = last'.c

(* C12: a file frame whose size exceeds MAX_FILE_SIZE is answered with an  *)
(* error frame to its sender and written to no other connection, whether   *)
(* addressed to "All" or to one user.                                      *)
C12_OversizedFileRejected ==
    [][(LiveRecv /\ last'.data.type = "file"
          /\ last'.data.size > MAX_FILE_SIZE)
       => /\ out' # <<>>
          /\ \A e \in Range(out') : e.to = last'.c /\ e.f.type = "system"]_vars

(* C15: no frame read in the main loop that is not a command, whatever it  *)
(* holds, ends the session: its sender is still registered on the same     *)
(* connection and its handler is still in the loop.                        *)
C15_FrameKeepsSession ==
    [][(LiveRecv /\ last'.data.type # "command")
       => /\ Has(clients', last'.u) /\ clients'[last'.u].conn = last'.c
          /\ pc'[last'.c] = "active"]_vars

---------------------------------------------------------------------------
(* The end of a session *)

Popped(u) == Has(clients, u) /\ ~Has(clients', u)

Replaced(u) ==
    Has(clients, u) /\ Has(clients', u) /\ clients'[u].conn # clients[u].conn

ClosingEvent(u) ==
    \/ last'.op = "disconnect" /\ Has(clients, u) /\ last'.c = clients[u].conn
    \/ last'.op \in {"quick_kick", "quick_ban"} /\ last'.u = u
    \/ MuteTarget("/kick", u)
    \/ MuteTarget("/ban", u)

C13_Step ==
    \A u \in Users :
        /\ ~Replaced(u)
        /\ (Has(clients, u) /\ ClosingEvent(u)) => Popped(u)
        /\ \A v \in DOMAIN clients' :
              Len(SelectSeq(out', LAMBDA e :
                      e.to = clients'[v].conn /\ e.f = LeftNotice(u)))
                  = IF Popped(u) THEN 1 ELSE 0

(* C13: a session leaves the registry in one step and is never swapped     *)
(* for another; the step of its own disconnect, of a /kick or /ban by an   *)
(* admin or of the console's kick or ban removes it if it is still there,  *)
(* and every remaining session is written exactly one "left the chat"      *)
(* notice in the step that removes it and none in any other step.          *)
C13_RemovedOnce == [][C13_Step]_vars

(* bob's handler ends after bob was kicked: nothing is left to remove and  *)
(* alice is told nothing more                                              *)
C13_Witness ==
    /\ last.op = "disconnect" /\ last.u = "bob"
    /\ ~Has(clients, "bob") /\ "bob" \notin banned
    /\ Has(clients, "alice") /\ out = <<>>

ToldLeft(v) ==
    /\ Has(clients, v)
    /\ \E u \in Users :
          [to |-> clients[v].conn, f |-> LeftNotice(u)] \in Range(out)

GotUserlist(v) ==
    Has(clients, v) =>
        [to |-> clients[v].conn, f |-> UserlistFrame(Cur)] \in Range(out)

(* C14: a session that remains when another is closed is afterwards sent   *)
(* a userlist frame showing the registry without the closed session.       *)
C14_UserlistAfterClose ==
    \A v \in Pair : ToldLeft(v) ~> GotUserlist(v)

---------------------------------------------------------------------------
(* The first frame *)

AuthStep == last'.op = "auth" /\ last'.data.type = "auth"

(* C16: an auth frame for a banned username, with or without the register  *)
(* flag, adds nothing to the credential store and is answered neither with *)
(* the account-created nor with the authentication-successful notice.      *)
C16_BanBeforeCredentials ==
    [][(AuthStep /\ last'.u \in banned)
       => /\ users_db' = users_db
          /\ \A e \in Range(out') :
                e.f \notin {Sys(MsgAuthOk), Sys(MsgCreated(last'.u))}]_vars

HeldAfter(c) == \E u \in DOMAIN clients' : clients'[u].conn = c

SentAfter(c) == SelectSeq(out', LAMBDA e : e.to = c)

(* C17: a connection whose auth frame carries the register flag gets its   *)
(* notice (account created, or name exists), its handler ends and no       *)
(* session is registered for it.                                           *)
C17_RegisterNeverActive ==
    [][(AuthStep /\ last'.data.register)
       => /\ pc'[last'.c] = "idle" /\ ~HeldAfter(last'.c)
          /\ last'.res \in {"created", "exists"} =>
                SentAfter(last'.c) =
                    Only(last'.c, IF Has(users_db, last'.u)
                                  THEN MsgExists(last'.u)
                                  ELSE MsgCreated(last'.u))]_vars

C17_Witness ==
    /\ last.op = "auth" /\ last.res = "created" /\ last.u = "alice"
    /\ Has(users_db, "alice") /\ pc[last.c] = "idle"
    /\ ~Has(clients, "alice") /\ Has(clients, "bob")

---------------------------------------------------------------------------
(* The admin flag *)

AdminCommand ==
    AnyCommandStep /\ lower(last'.data.command[1]) = "/admin"

WithSecret ==
    Len(last'.data.command) >= 2 /\ last'.data.command[2] = ADMIN_PASSWORD

(* a session starts without the flag, and is never swapped for another *)
C19_New ==
    \A u \in Users :
        /\ (~Has(clients, u) /\ Has(clients', u)) => ~clients'[u].is_admin
        /\ ~Replaced(u)

(* the flag is gained only by /admin with the secret, sent on the          *)
(* session's own connection                                                *)
C19_Gain ==
    \A u \in Users :
        (Has(clients, u) /\ Has(clients', u)
            /\ ~clients[u].is_admin /\ clients'[u].is_admin)
        => /\ AdminCommand /\ WithSecret
           /\ last'.u = u /\ last'.c = clients[u].conn

(* /admin with a wrong or no password changes no flag; with the secret it  *)
(* sets the sender's                                                       *)
C19_Password ==
    AdminCommand =>
        IF WithSecret
        THEN clients'[last'.u].is_admin
        ELSE \A u \in DOMAIN clients :
                Has(clients', u) /\ clients'[u].is_admin = clients[u].is_admin

(* C19: a session is created without the admin flag; the flag becomes true *)
(* only by an /admin with the configured secret issued by that session,    *)
(* a wrong or missing password leaves every flag as it was, and a new      *)
(* session of a name whose earlier session had the flag starts without it. *)
C19_AdminFlag == [][C19_New /\ C19_Gain /\ C19_Password]_vars

---------------------------------------------------------------------------
(* Room passwords *)

JoinOf(r) ==
    /\ AnyCommandStep /\ lower(last'.data.command[1]) = "/join"
    /\ Len(last'.data.command) >= 2 /\ last'.data.command[2] = r
    /\ clients[last'.u].conn = last'.c
    /\ Has(room_passwords, r)

C20_Step ==
    \A r \in RoomNames :
        JoinOf(r) =>
            LET u == last'.u
                pwd == IF Len(last'.data.command) > 2
                       THEN last'.data.command[3] ELSE ""
                p == Get(user_rooms, u, NONE)
            IN  IF pwd # room_passwords[r]
                THEN /\ out' = Only(last'.c, MsgIncorrectPassword)
                     /\ UNCHANGED <<clients, banned, rooms, user_rooms,
                                    room_passwords>>
                ELSE /\ u \in Get(rooms', r, {})
                     /\ Get(user_rooms', u, NONE) = r
                     /\ (Truthy(p) /\ p # r) => u \notin Get(rooms', p, {})
                     /\ room_passwords' = room_passwords

(* C20: /join r on a room with a stored password, with another or no       *)
(* password, is answered "Incorrect room password." and changes nothing    *)
(* (the caller's room, r's members and r's password stay); with the exact  *)
(* password the caller becomes a member of r, its pointer is r and it is   *)
(* out of the room it was in.                                              *)
C20_JoinPassword == [][C20_Step]_vars

C20_Witness ==
    /\ last.op = "recv" /\ last.res = "handled" /\ last.u = "bob"
    /\ last.data = Cmd(<<"/join", "gaming", "pw123">>)
    /\ Get(rooms, "gaming", {}) = {"alice", "bob"}
    /\ Get(user_rooms, "bob", NONE) = "gaming"
    /\ ~Has(rooms, "lobby")

---------------------------------------------------------------------------
(* Broadcast requests *)

BroadcastFrame(u, data) ==
    [type |-> "broadcast", from |-> u, message |-> data.message,
     timestamp |-> now]

(* The sessions a broadcast of u is for: the others whose current room is  *)
(* u's, or all the others when u has none                                  *)
SameRoom(u) ==
    LET r == Get(user_rooms, u, NONE)
    IN  {v \in DOMAIN clients \ {u} :
            Truthy(r) => Get(user_rooms, v, NONE) = r}

(* C21: a broadcast request of a sender whose current room is r is written *)
(* once to each registered session other than the sender whose current     *)
(* room is r, and to no other; a sender without a room reaches every other *)
(* registered session; nothing is written to the sender.                   *)
C21_BroadcastRouting ==
    [][(LiveRecv /\ last'.res = "handled" /\ last'.data.type = "broadcast")
       => /\ \A v \in SameRoom(last'.u) :
                Len(SelectSeq(out', LAMBDA e : e.to = clients[v].conn)) = 1
          /\ \A e \in Range(out') :
                /\ e.f = BroadcastFrame(last'.u, last'.data)
                /\ e.to # last'.c
                /\ \E v \in SameRoom(last'.u) : e.to = clients[v].conn]_vars

(* alice broadcasts in gaming: bob, in gaming, is reached; carol, in no    *)
(* room, is not                                                            *)
C21_Witness ==
    /\ last.op = "recv" /\ last.res = "handled" /\ last.u = "alice"
    /\ last.data.type = "broadcast"
    /\ Users \subseteq DOMAIN clients /\ clients["alice"].conn = last.c
    /\ Get(user_rooms, "alice", NONE) = "gaming"
    /\ Get(user_rooms, "bob", NONE) = "gaming"
    /\ ~Has(user_rooms, "carol")
    /\ out = <<[to |-> clients["bob"].conn,
                f |-> BroadcastFrame("alice", last.data)]>>

---------------------------------------------------------------------------
(* Private requests to a name without a session *)

(* The error text, with the target's name in it *)
NotFoundNaming(target) == "User '" \o target \o "' not found."

PrivateToAbsent ==
    /\ LiveRecv /\ last'.res = "handled" /\ last'.data.type = "private"
    /\ ~Has(clients, last'.data.to)

(* C22 as stated: a private request to a username without a session writes *)
(* one frame, the not-found error naming the target, to the sender, and    *)
(* leaves the registry unchanged.                                          *)
C22_PrivateToAbsent ==
    [][PrivateToAbsent =>
          /\ out' = Only(last'.c, NotFoundNaming(last'.data.to))
          /\ UNCHANGED <<clients, banned, rooms, user_rooms,
                         room_passwords>>]_vars

(* C22 amended: the registry is unchanged except that the sender's own     *)
(* mute expiry, if it has already passed, is reset to 0.                   *)
C22_PrivateToAbsentExpiredMute ==
    [][PrivateToAbsent =>
          /\ out' = Only(last'.c, NotFoundNaming(last'.data.to))
          /\ UNCHANGED <<banned, rooms, user_rooms, room_passwords>>
          /\ clients' = [clients EXCEPT ![last'.u].muted_until =
                                            IF @ < now THEN 0 ELSE @]]_vars

(* bob writes to alice, who is not logged in *)
C22_Witness ==
    /\ last.op = "recv" /\ last.res = "handled" /\ last.u = "bob"
    /\ last.data = Priv("alice", "psst")
    /\ ~Has(clients, "alice") /\ Has(clients, "bob")
    /\ out = Only(clients["bob"].conn, NotFoundNaming("alice"))

---------------------------------------------------------------------------
(* Bans against logins in progress *)

(* C30: no username is at once on the ban list and registered as a         *)
(* session, whatever logins were in progress when the ban was made.        *)
C30_NoBannedSession ==
    \A u \in Users : ~(u \in banned /\ Has(clients, u))

---------------------------------------------------------------------------
(* The order of a kick *)

KickedNotice(u, by) == Sys(u \o " was kicked by " \o by \o ".")

(* Positions in the frames of the step at which f is written to c *)
WrittenAt(c, f) ==
    {i \in 1 .. Len(out') : out'[i] = [to |-> c, f |-> f]}

C26_Step ==
    \A u \in Users :
        MuteTarget("/kick", u) =>
            LET cu == clients[u].conn
                by == last'.u
            IN  \* first of all u is told
                /\ out'[1] = [to |-> cu, f |-> Sys(MsgKicked)]
                \* u's session is gone and its socket closed
                /\ ~Has(clients', u) /\ cu \in closed'
                \* nothing else reaches u's connection, the announcement
                \* included
                /\ \A i \in 2 .. Len(out') : out'[i].to # cu
                \* every remaining session gets the announcement, after the
                \* notice that u left
                /\ \A v \in DOMAIN clients' :
                      LET cv == clients'[v].conn
                      IN  /\ Cardinality(WrittenAt(cv, KickedNotice(u, by))) = 1
                          /\ \A i \in WrittenAt(cv, LeftNotice(u)),
                                j \in WrittenAt(cv, KickedNotice(u, by)) : i < j
                          /\ WrittenAt(cv, LeftNotice(u)) # {}

(* C26: /kick u by an admin with u active first writes "You were kicked"   *)
(* to u, then removes u's session and closes its connection, then          *)
(* announces the kick to the remaining sessions; the announcement is not   *)
(* written to u's connection.                                              *)
C26_KickOrder == [][C26_Step]_vars

(* the admin alice kicked bob *)
C26_Witness ==
    /\ last.op = "recv" /\ last.res = "handled" /\ last.u = "alice"
    /\ last.data = Cmd(<<"/kick", "bob">>)
    /\ Has(clients, "alice") /\ clients["alice"].is_admin
    /\ ~Has(clients, "bob")
    /\ Len(out) = 3 /\ out[1].f = Sys(MsgKicked) /\ out[1].to \in closed
    /\ out[3] = [to |-> clients["alice"].conn, f |-> KickedNotice("bob", "alice")]

---------------------------------------------------------------------------
(* Failed sends *)

(* C25: a broadcast with a recipient whose connection is broken is still   *)
(* written, once, to every other recipient it is for whose connection is   *)
(* healthy, and its sender's handler goes on: the sender stays registered  *)
(* and in the loop.                                                        *)
C25_FanoutSurvivesFailure ==
    [][(LiveRecv /\ last'.res = "handled" /\ last'.data.type = "broadcast")
       => /\ \A v \in SameRoom(last'.u) :
                clients[v].conn \notin closed =>
                   Len(SelectSeq(out', LAMBDA e :
                         e = [to |-> clients[v].conn,
                              f |-> BroadcastFrame(last'.u, last'.data)])) = 1
          /\ pc'[last'.c] = "active"
          /\ Has(clients', last'.u) /\ clients'[last'.u].conn = last'.c]_vars

(* carol broadcasts; the send to alice, first in the loop, fails; bob      *)
(* still receives                                                          *)
C25_Witness ==
    /\ last.op = "recv" /\ last.res = "handled" /\ last.u = "carol"
    /\ last.data.type = "broadcast"
    /\ Users \subseteq DOMAIN clients /\ clients["carol"].conn = last.c
    /\ clients["alice"].conn \in closed
    /\ clients["bob"].conn \notin closed
    /\ out = <<[to |-> clients["bob"].conn,
                f |-> BroadcastFrame("carol", last.data)]>>

---------------------------------------------------------------------------
(* The ban file *)

ChangingBans ==
    {t \in Threads : pc[t] \in {"save_open", "save_sorted", "save_close"}}

Persisted == load_banned(banned_file)

InMemory == {Chars(u) : u \in banned}

(* C29: whenever no change of the ban list is under way, the names in the  *)
(* ban file are the names in the ban set.                                  *)
C29_BanFileIsBanSet == ChangingBans = {} => Persisted = InMemory

---------------------------------------------------------------------------
(* Shutdown *)

(* every registered session is written the notice, and connections are     *)
(* closed only after that                                                  *)
C28_NoticeBeforeClose ==
    /\ last'.op = "on_close_notify" =>
          /\ \A u \in DOMAIN clients :
                [to |-> clients[u].conn, f |-> Sys(MsgShutdown)] \in Range(out')
          /\ closed' = closed
    /\ last'.op = "on_close_conns" =>
          /\ pc[Console] = "close_conns"
          /\ \A u \in DOMAIN clients : clients[u].conn \in closed'

(* the accept loop takes at most one more connection and then has stopped *)
C28_AcceptStops ==
    /\ (~running /\ last'.op = "auth") => ~accepting'
    /\ ~accepting => ~accepting'
    /\ ~running => ~running'

(* after the connections were closed no session is registered *)
C28_NoNewSession ==
    pc[Console] = "closing" =>
        \A u \in DOMAIN clients' :
            Has(clients, u) /\ clients'[u].conn = clients[u].conn

(* C28: once shutdown is initiated, every registered session is written    *)
(* the shutdown notice before the connections are closed, the accept loop  *)
(* stops, and no session is registered after the connections were closed.  *)
C28_Shutdown ==
    [][C28_NoticeBeforeClose /\ C28_AcceptStops /\ C28_NoNewSession]_vars

---------------------------------------------------------------------------
(* Concurrent /create *)

(* The handlers that have found the name free and are writing the room *)
Creating(r) ==
    {c \in Conns : pc[c] \in {"create_rooms", "create_pointer"}
                   /\ th[c].room_name = r}

(* a /create of r finds the name free only if no other /create of r has    *)
(* found it free before and the room does not exist                        *)
C23_OneCreates ==
    \A c \in Conns, r \in RoomNames :
        (c \notin Creating(r) /\ pc'[c] = "create_rooms"
            /\ th'[c].room_name = r)
        => Creating(r) = {} /\ ~Has(rooms, r)

(* between the commands the members of every room are the users whose      *)
(* pointer names it                                                        *)
C23_Consistent ==
    (\A r \in RoomNames : Creating(r) = {})
    => \A r \in RoomNames : Get(rooms, r, {}) = PointsTo(r)

(* C23: of the /create commands for one new room name exactly one finds    *)
(* the name free, the others are answered "already exists", and once the   *)
(* commands have written, the room map and the room pointers agree.        *)
C23_CreateAtomic == []C23_Consistent /\ [][C23_OneCreates]_vars

---------------------------------------------------------------------------
(* The lock and the network *)

(* The threads inside send_json on a session's socket *)
Sending == {t \in Threads : pc[t] = "fanout_send"}

(* C24: no thread that holds clients_lock is sending a frame. *)
C24_NoSendUnderLock == \A t \in Sending : lock # t

---------------------------------------------------------------------------
(* The userlist frame *)

(* C27: a userlist frame that is being sent shows the session names, the   *)
(* rooms and the room pointers as the registry held them together at one   *)
(* moment while the frame was put together.                                *)
C27_UserlistIsSnapshot ==
    \A t \in Sending :
        th[t].obj.type = "userlist" => th[t].obj \in th[t].seen

---------------------------------------------------------------------------
(* Broken connections *)

(* The session registered on connection c *)
SessionOn(c, u) == Has(clients, u) /\ clients[u].conn = c

(* Reads and writes on c fail: the peer is gone, the session is still      *)
(* registered                                                              *)
Broken(c, u) == SessionOn(c, u) /\ c \in closed

(* The handler of c leaves its loop because recv failed *)
ReadFailed(c, u) ==
    SessionOn(c, u) /\ last'.op = "disconnect" /\ last'.c = c

(* A step that writes to a broken connection other than the sender's *)
WriteFailed(c, u) ==
    /\ Broken(c, u) /\ LiveRecv /\ last'.res = "handled" /\ last'.c # c
    /\ u \in Recipients(Cur, {last'.u}, Get(user_rooms, last'.u, NONE))

Registered(c) == \E u \in Users : SessionOn(c, u)

C31_Unregistered ==
    \A c \in Conns : (c \in closed /\ Registered(c)) ~> ~Registered(c)

C31_Step ==
    \A c \in Conns, u \in Users :
        /\ ReadFailed(c, u) =>
              /\ ~Has(clients', u)
              /\ \A e \in Range(out') : e.f = LeftNotice(u) /\ e.to # c
        /\ WriteFailed(c, u) =>
              /\ \A e \in Range(out') :
                    e.to # c /\ e.f = BroadcastFrame(last'.u, last'.data)
              /\ pc' = pc /\ DOMAIN clients' = DOMAIN clients

(* C31: a session whose connection is broken is eventually unregistered;   *)
(* when its read fails the session is unregistered and the other sessions  *)
(* are written its leave notice and nothing else; a write to it that fails *)
(* changes nothing for the other sessions, which are written the frame     *)
(* that was being sent.                                                    *)
C31_FailureIsTerminal == C31_Unregistered /\ [][C31_Step]_vars

(* alice broadcasts while the connection of bob is broken and bob is       *)
(* still registered: the write to bob fails                                *)
C31_Witness ==
    /\ last.op = "recv" /\ last.res = "handled" /\ last.u = "alice"
    /\ Has(clients, "bob") /\ Broken(clients["bob"].conn, "bob")
    /\ out = <<>>

---------------------------------------------------------------------------
(* File frames *)

(* C32: every file frame written to a connection has a from field, and it  *)
(* is the username of the session that uploaded the file.                  *)
C32_FileFromIsUploader ==
    [][(LiveRecv /\ last'.data.type = "file")
       => \A e \in Range(out') :
             e.f.type = "file" =>
                "from" \in DOMAIN e.f /\ e.f.from = last'.u]_vars

---------------------------------------------------------------------------
(* Exceptions in the main loop *)

(* The branch of the request raises: the lookup of the recipient (768,     *)
(* 808) is given a key that cannot be hashed                               *)
Raises(data) == data.type \in {"private", "file"} /\ data.to = Unhashable

(* C33: a broadcast, private, typing or file request whose handling        *)
(* raises an exception is answered with a system frame to its sender.      *)
C33_ExceptionReported ==
    [][(LiveRecv /\ last'.res = "handled" /\ Raises(last'.data))
       => \E e \in Range(out') : e.to = last'.c /\ e.f.type = "system"]_vars

---------------------------------------------------------------------------
(* The credential store *)

(* Every stored name stays stored, with its password *)
C34_Kept ==
    \A u \in DOMAIN users_db : Has(users_db', u) /\ users_db'[u] = users_db[u]

(* The account-created notice is given for a name that was not stored *)
C34_CreatedOnce ==
    (last'.op = "register" /\ last'.res = "created")
        => ~Has(users_db, last'.u)

(* C34: no step changes the password of a stored username or removes a     *)
(* stored username, and a registration is answered "created" only when the *)
(* name was not stored, also when registrations run at the same time.      *)
C34_CredentialStore == [][C34_Kept /\ C34_CreatedOnce]_vars

---------------------------------------------------------------------------
(* Passwords of rooms that exist *)

(* Room r exists without a stored password and the step stores one *)
Acquires(r) ==
    Has(rooms, r) /\ ~Has(room_passwords, r) /\ Has(room_passwords', r)

(* The /join handlers that found r absent and are about to store its       *)
(* password                                                                *)
Storing(r) ==
    {c \in Conns : pc[c] = "join_store" /\ th[c].room_name = r}

(* C35: a room that exists without a stored password acquires one only     *)
(* from a /join that a user sent with that password; the /join found the   *)
(* room absent when it tested (342) and the room was created before it     *)
(* stored the password (344).                                              *)
C35_JoinGatesOpenRoom ==
    [][\A r \in RoomNames :
          /\ Acquires(r) =>
                \E c \in Storing(r) :
                    /\ last'.op = "join_store" /\ last'.c = c
                    /\ th[c].pwd = "pw123"
                    /\ room_passwords'[r] = th[c].pwd
          /\ \A c \in Conns :
                (c \notin Storing(r) /\ pc'[c] = "join_store"
                    /\ th'[c].room_name = r)
                => ~Has(rooms, r) /\ ~Has(room_passwords, r)]_vars

(* gaming exists, open, with a member, and a /join stores a password for   *)
(* it                                                                      *)
C35_Witness ==
    /\ last.op = "join_store" /\ last.existing /\ last.open
    /\ last.room = "gaming"
    /\ Has(rooms, "gaming") /\ rooms["gaming"] # {}
    /\ Get(room_passwords, "gaming", NONE) = "pw123"

---------------------------------------------------------------------------
(* Rooms hold sessions only *)

(* The usernames the room maps mention *)
InRooms ==
    DOMAIN user_rooms \cup UNION {rooms[r] : r \in DOMAIN rooms}

(* C37: every username in a member set or with a room pointer is a         *)
(* registered session.                                                     *)
C37_RoomsHoldSessions == InRooms \subseteq DOMAIN clients

---------------------------------------------------------------------------
(* Passwords of rooms that are gone *)

C36_Stored == DOMAIN room_passwords \subseteq DOMAIN rooms

(* A /create without a password that creates its room leaves it open *)
C36_CreatedOpen ==
    \A r \in RoomNames :
        (LiveRecv /\ last'.data = Cmd(<<"/create", r>>)
            /\ ~Has(rooms, r) /\ Has(rooms', r))
        => ~Has(room_passwords', r)

(* C36: a password is stored only for a room that is in the room map, and  *)
(* a room created without a password has none.                             *)
C36_PasswordOnlyForRoom == []C36_Stored /\ [][C36_CreatedOpen]_vars

---------------------------------------------------------------------------
(* The close path and newer sessions *)

(* C38: the close path of the handler of connection c removes no session   *)
(* that is registered on another connection.                               *)
C38_ClosesOwnSession ==
    [][last'.op = "disconnect"
       => \A u \in DOMAIN clients :
             clients[u].conn # last'.c => Has(clients', u)]_vars

---------------------------------------------------------------------------
(* What a muted user sends *)

(* A chat frame that names u as its sender, or a file frame *)
ChatOrFile(f, u) ==
    \/ f.type \in {"broadcast", "private"} /\ f.from = u
    \/ f.type = "file"

(* C40: a request of a user whose mute has not expired writes no chat      *)
(* frame from that user and no file frame to any other connection.         *)
C40_MutedSendsNothing ==
    [][(LiveRecv /\ now < clients[last'.u].muted_until)
       => \A e \in Range(out') :
             e.to # last'.c => ~ChatOrFile(e.f, last'.u)]_vars

---------------------------------------------------------------------------
(* The lock *)

(* The positions at which a thread acquires clients_lock *)
Acquiring == {"broadcast", "userlist"}

(* No thread is about to acquire the lock it holds *)
C39_NoReacquire == \A t \in Threads : lock = t => pc[t] \notin Acquiring

(* Every critical section ends *)
C39_Finite == \A t \in Conns : (lock = t) ~> (lock # t)

(* Every thread that waits for the lock gets it *)
C39_Acquires == \A t \in Conns : (pc[t] \in Acquiring) ~> (lock = t)

(* C39: no thread acquires clients_lock while holding it, every critical   *)
(* section ends, and every thread waiting for the lock eventually holds    *)
(* it.                                                                     *)
C39_NoDeadlock == []C39_NoReacquire /\ C39_Finite /\ C39_Acquires

=============================================================================
